---------------------------- MODULE Spec2Model ----------------------------
(***************************************************************************)
(* A model of the kubetest2-ec2 deployer: the fleet orchestrator           *)
(* (deployer.Up / deployer.Down), the readiness poller                     *)
(* (AWSRunner.isAWSInstanceRunning) and the user-data composer             *)
(* (AWSRunner.prepareAWSImages / AWSRunner.getUserData), and of the        *)
(* node-e2e runner of the same repository.                                 *)
(*                                                                         *)
(* The specifications share the module's variables:                        *)
(*   Spec       the orchestrator: Validate, the sequential launch loop,    *)
(*              one poll task per launched instance, the fatalErrors /     *)
(*              wgDone select, PostInstall, IsUp and Down;                 *)
(*   SpecPoll   one instance's readiness poll, gate by gate;               *)
(*   SpecData   the composition of the user-data of both roles;            *)
(*   SpecIam    ensureInstanceProfileAndRole on one account;               *)
(*   SpecImage  the resolution of the images in Validate;                  *)
(*   SpecLaunch utils.LaunchNewInstance;                                   *)
(*   SpecKube   downloadKubeConfig;                                        *)
(*   SpecLife   one deployer across Build, Up, IsUp and Down calls;        *)
(*   SpecS3     utils.ValidateS3Bucket on the keys of a bucket;            *)
(*   SpecNodes  deployer.waitForKubectlNodes;                              *)
(*   SpecFleet  the readiness polls of one Up running side by side;        *)
(*   SpecE2e    the node-e2e runner (test/e2e_node/remote/aws):            *)
(*              StartTests and its testAWSImage tasks.                     *)
(***************************************************************************)
EXTENDS Integers, Sequences, FiniteSets, TLC

VARIABLES
    \* ---- orchestrator (deployer.Up, deployer.Down) ----
    pc,             \* position of Up: idle, launch, select, postinstall, done
    upErr,          \* the error Up returned (NilErr: none)
    cfgErrs,        \* ghost: the configuration errors present in the options of this Up
    images,         \* runner.internalAWSImages: a sequence of roles
    li,             \* index of the image the launch loop handles next
    instances,      \* runner.instances: the tracked instance ids, in launch order
    launched,       \* ghost: ids for which RunInstances succeeded
    runCalls,       \* ghost: number of RunInstances calls made
    controlPlaneIP, \* runner.controlPlaneIP (NoIP: "")
    task,           \* per instance id, the position of its poll goroutine
    fatalErrors,    \* the fatalErrors channel: open or closed
    wgDone,         \* the wgDone channel: nowaiter (made, wg.Wait not started), open, closed
    down,           \* position of Down: none, done
    termFailing,    \* ghost: the ids whose TerminateInstances call fails in this Down
    downAttempted,  \* ghost: ids a TerminateInstances call was issued for, in order
    downErr,        \* the error Down returned
    downLog,        \* ghost: what Down did, in order: the log dump, the terminate calls
    kubectlGated,   \* ghost: ids whose poll ran the kubectl gates of runner.go:316-330
    KubeconfigPath, \* deployer.KubeconfigPath ("": not set)
    downloads,      \* ghost: the ids downloadKubeConfig was called for, in order
    exited,         \* a klog.Fatalf ended the process
    isUpCalls,      \* number of IsUp calls made
    isUpRet,        \* what the last IsUp returned (NoIsUp: not called)
    repolled,       \* ghost: the ids the last IsUp called isAWSInstanceRunning for
    notRunning,     \* ghost: the tracked ids whose re-poll fails in the last IsUp
    nodesListed,    \* ghost: the lines `kubectl get nodes` printed in the last IsUp
    cloudInitOn,    \* ghost: the instances waitForCloudInitComplete ran its command on
    \* ---- readiness poller (AWSRunner.isAWSInstanceRunning) of one instance ----
    ppc,            \* position of the poll: the gate it is at, or returned
    iter,           \* the loop counter i
    instanceRunning, \* the loop's instanceRunning flag
    createdSSHKey,  \* the loop's createdSSHKey flag
    isControlPlane, \* a.controlPlaneIP equals the instance's launch-time private IP
    instanceConnect, \* the Ec2InstanceConnect option
    attempted,      \* ghost: the gates tried in the current iteration, with their outcome
    lastFail,       \* ghost: the gate and the output of the last failed remote command
    pollRet,        \* the error isAWSInstanceRunning returned
    \* ---- PostInstall on the control plane (deployer.waitForCloudInitComplete) ----
    wpc,            \* position of the wait: idle, polling, returned
    elapsed,        \* seconds since the wait began
    wErr,           \* the error waitForCloudInitComplete returned
    wSeen,          \* ghost: what the last `cloud-init status` of the wait printed
    upResult,       \* what Up returns after the wait: unset, or an error
    \* ---- user-data composer (prepareAWSImages, getUserData, LaunchNewInstance) ----
    dpc,            \* position of the composition: off, start, prepared, failed
    opts,           \* the options and environment of this run
    ret,            \* what prepareAWSImages returned: the image specs, in order
    prepErr,        \* the error prepareAWSImages returned
    cpIP,           \* LaunchNewInstance's controlPlaneIP argument ("" until the first launch)
    handed,         \* the user-data handed to RunInstances, launch by launch
    \* ---- IAM provisioning (ensureInstanceProfileAndRole) ----
    iam,            \* the account: the role, its policies, the instance profile
    ensureLog,      \* ghost: one entry per ensureInstanceProfileAndRole call
    \* ---- image resolution (AWSRunner.Validate, runner.go:97-218) ----
    imagePc,        \* position: off, start, returned, panicked
    TargetBuildArch, \* the ~target-build-arch option
    requested,      \* ghost: the --image and --worker-image options as given
    Image,          \* deployer.Image
    WorkerImage,    \* deployer.WorkerImage
    lookups,        \* ghost: the parameter-store lookups made, with their answers
    imagesErr,      \* the error Validate returned from the image checks
    \* ---- utils.LaunchNewInstance (utils/ec2.go:30-108) ----
    launchLog,      \* ghost: one entry per LaunchNewInstance call
    launchPanicked, \* a LaunchNewInstance call panicked
    \* ---- downloadKubeConfig (up.go:197-220) ----
    kubePc,         \* position: off, start, written
    adminConf,     \* the lines of /etc/kubernetes/admin.conf as read from the instance
    publicIp,       \* the publicIp argument
    kubeOut,        \* the lines written to the temporary kubeconfig file
    \* ---- repeated getUserData calls (runner.go:444-586) ----
    composed,       \* the further getUserData calls made: role, moment, user-data
    \* ---- one deployer across Build, Up, IsUp and Down calls ----
    runnerSet,      \* d.runner is not nil
    runnerInstances,
                    \* d.runner.instances
    ec2Running,     \* ghost: ids RunInstances returned and no terminate call succeeded for
    terminateLog,   \* the TerminateInstances calls each Down issued, and what it returned
    lifeCalls,      \* the deployer calls made so far
    lifePanicked,   \* a call dereferenced the nil d.runner
    \* ---- ValidateS3Bucket on a bucket's keys (utils/s3.go:32-85) ----
    s3Pc,           \* where the run is: off, start, validated, launched
    s3Stage,        \* the stage location
    s3Version,      \* the requested version
    s3Keys,         \* the keys of the objects in the bucket
    s3ListOK,       \* ListObjectsV2 with the version for prefix answers
    s3ListVOK,      \* ListObjectsV2 with the prefix v answers
    s3Err,          \* what ValidateS3Bucket returned
    s3Launched,     \* Up went on to launch an instance
    \* ---- waitForKubectlNodes (deployer.go:174-214) ----
    nwPc,           \* where the wait is: off, start, loop, returned, next
    nwKubectl,      \* d.kubectlPath is set
    nwKubeconfig,   \* d.KubeconfigPath is set
    nwTracked,      \* len(d.runner.instances)
    nwChecks,       \* the kubectl runs made so far
    nwLast,         \* what the last kubectl run gave: its error and its line count
    nwEnd,          \* how the wait ended
    nwUpErr,        \* what Up returned because of the wait
    \* ---- concurrent readiness polls of one Up (up.go:143-156) ----
    fleetPc,        \* per instance: position of its poll task
    fleetIter,      \* per instance: the counter i of its readiness loop
    fleetOwnPassed, \* per instance: its own gates passed in some iteration
    fleetRet,       \* per instance: the error its poll returned
    fleetKubeconfig,\* d.KubeconfigPath as the polls see it
    fleetExited,    \* the process exited (klog.Fatalf)
    \* ---- the node-e2e runner (test/e2e_node/remote/aws/aws_runner.go) ----
    e2ePc,          \* StartTests: idle, or returned
    e2eCfg,         \* cfg.DeleteInstances and the --reuse-instances flag
    e2eImages,      \* len(a.internalAWSImages)
    e2eNumTests,    \* what StartTests returned
    e2eTask,        \* per task: its position in testAWSImage
    e2eImageOf,     \* per task: the image its closure holds
    e2eInstance,    \* per task: how it came to its instance
    e2eTerminated,  \* the tasks whose instance got a terminate call
    e2eResult,      \* per task: the TestResult it returns
    e2eReceived,    \* the results the caller received, in order
    e2eExited       \* the process ended on a panic

orchVars == <<pc, upErr, cfgErrs, images, li, instances, launched, runCalls,
              controlPlaneIP, task, fatalErrors, wgDone,
              down, termFailing, downAttempted, downErr, downLog, kubectlGated,
              KubeconfigPath, downloads, exited,
              isUpCalls, isUpRet, repolled, notRunning, nodesListed,
              cloudInitOn>>

\* the kubeconfig of the session
kubeconfigVars == <<KubeconfigPath, downloads, exited>>

\* the calls of IsUp
isUpVars == <<isUpCalls, isUpRet, repolled, notRunning, nodesListed>>

\* what a session keeps next to the fields of Up and Down
sessVars == <<downLog, kubectlGated, kubeconfigVars, isUpVars, cloudInitOn>>

pollVars == <<ppc, iter, instanceRunning, createdSSHKey, isControlPlane,
              instanceConnect, attempted, lastFail, pollRet, wpc, elapsed, wErr,
              wSeen, upResult>>

\* the variables of the wait for cloud-init
waitVars == <<wpc, elapsed, wErr, wSeen, upResult>>

dataVars == <<dpc, opts, ret, prepErr, cpIP, handed>>

iamVars == <<iam, ensureLog>>

imageVars == <<imagePc, TargetBuildArch, requested, Image, WorkerImage, lookups,
               imagesErr>>

launchVars == <<launchLog, launchPanicked>>

kubeVars == <<kubePc, adminConf, publicIp, kubeOut>>

composeVars == <<composed>>

lifeVars == <<runnerSet, runnerInstances, ec2Running, terminateLog, lifeCalls, lifePanicked>>

s3Vars == <<s3Pc, s3Stage, s3Version, s3Keys, s3ListOK, s3ListVOK, s3Err, s3Launched>>

nodesVars == <<nwPc, nwKubectl, nwKubeconfig, nwTracked, nwChecks, nwLast, nwEnd, nwUpErr>>

fleetVars == <<fleetPc, fleetIter, fleetOwnPassed, fleetRet, fleetKubeconfig, fleetExited>>

e2eVars == <<e2ePc, e2eCfg, e2eImages, e2eNumTests, e2eTask, e2eImageOf, e2eInstance, e2eTerminated, e2eResult, e2eReceived, e2eExited>>

nonOrchVars == <<pollVars, dataVars, iamVars, imageVars, launchVars, kubeVars, composeVars, lifeVars, s3Vars, nodesVars, fleetVars, e2eVars>>

nonPollVars == <<orchVars, dataVars, iamVars, imageVars, launchVars, kubeVars, composeVars, lifeVars, s3Vars, nodesVars, fleetVars, e2eVars>>

nonDataVars == <<orchVars, pollVars, iamVars, imageVars, launchVars, kubeVars, composeVars, lifeVars, s3Vars, nodesVars, fleetVars, e2eVars>>

nonIamVars == <<orchVars, pollVars, dataVars, imageVars, launchVars, kubeVars, composeVars, lifeVars, s3Vars, nodesVars, fleetVars, e2eVars>>

nonImageVars == <<orchVars, pollVars, dataVars, iamVars, launchVars, kubeVars, composeVars, lifeVars, s3Vars, nodesVars, fleetVars, e2eVars>>

nonLaunchVars == <<orchVars, pollVars, dataVars, iamVars, imageVars, kubeVars, composeVars, lifeVars, s3Vars, nodesVars, fleetVars, e2eVars>>

nonKubeVars == <<orchVars, pollVars, dataVars, iamVars, imageVars, launchVars, composeVars, lifeVars, s3Vars, nodesVars, fleetVars, e2eVars>>

nonComposeVars == <<orchVars, pollVars, dataVars, iamVars, imageVars, launchVars, kubeVars, lifeVars, s3Vars, nodesVars, fleetVars, e2eVars>>

nonLifeVars == <<orchVars, pollVars, dataVars, iamVars, imageVars, launchVars, kubeVars, composeVars, s3Vars, nodesVars, fleetVars, e2eVars>>

nonS3Vars == <<orchVars, pollVars, dataVars, iamVars, imageVars, launchVars, kubeVars, composeVars, lifeVars, nodesVars, fleetVars, e2eVars>>

nonNodesVars == <<orchVars, pollVars, dataVars, iamVars, imageVars, launchVars, kubeVars, composeVars, lifeVars, s3Vars, fleetVars, e2eVars>>

nonFleetVars == <<orchVars, pollVars, dataVars, iamVars, imageVars, launchVars, kubeVars, composeVars, lifeVars, s3Vars, nodesVars, e2eVars>>

nonE2eVars == <<orchVars, pollVars, dataVars, iamVars, imageVars, launchVars, kubeVars, composeVars, lifeVars, s3Vars, nodesVars, fleetVars>>

vars == <<orchVars, pollVars, dataVars, iamVars, imageVars, launchVars, kubeVars, composeVars, lifeVars, s3Vars, nodesVars, fleetVars, e2eVars>>

-----------------------------------------------------------------------------
(* Bounds of the model *)

\* the largest --num-nodes explored (the fleet is one control plane plus NumNodes workers)
MaxNodes == 2

MaxInstances == MaxNodes + 1

InstanceIds == 1..MaxInstances

-----------------------------------------------------------------------------
(* Errors: a kind and the instance id the message names (0: none) *)

Err(kind, id) == [kind |-> kind, id |-> id]

NilErr == Err("nil", 0)

NoIP == 0

\* the private address of instance i (distinct per instance within the subnet)
PrivateIP(i) == i

-----------------------------------------------------------------------------
(* Strings the code inspects are sequences of characters *)

HasPrefix(s, p) == Len(s) >= Len(p) /\ SubSeq(s, 1, Len(p)) = p

AmiPrefix == <<"a", "m", "i", "-">>

StrEmpty == <<>>

StrUbuntu == <<"u", "b", "u", "n", "t", "u">>

StrAl2023 == <<"a", "l", "2", "0", "2", "3">>

StrAl2 == <<"a", "l", "2">>

StrAmiA == <<"a", "m", "i", "-", "0", "a">>

StrBad == <<"i", "m", "g", "-", "7">>

operatingSystems == {StrUbuntu, StrAl2023, StrAl2}


-----------------------------------------------------------------------------
(* AWSRunner.Validate and what it calls, as Up runs it before the launch loop *)

\* the stage locations explored: none, a plain bucket name, a URL ("://")
StageLocations == {"", "bucket", "s3://bucket"}

IsURL(stage) == stage = "s3://bucket"

\* a stage check that never asks for the bucket
StageErrUnchecked(stage, headOK) ==
    IF stage = "" THEN Err("stage", 0) ELSE NilErr

\* runner.go:85-95: the stage location is set and a plain bucket answers HeadBucket
StageErr(stage, headOK) ==
    IF stage = "" THEN Err("stage", 0)
    ELSE IF ~IsURL(stage) /\ ~headOK THEN Err("bucket", 0)
    ELSE NilErr

\* a resolution that takes whatever the parameter store answered
ResolveImageUnchecked(image, ssmOK, ssmValue) ==
    LET lookup == image = StrEmpty \/ image \in operatingSystems
    IN  IF lookup /\ ~ssmOK THEN [err |-> Err("ssm", 0), id |-> image]
        ELSE IF lookup THEN [err |-> NilErr, id |-> ssmValue]
        ELSE IF ~HasPrefix(image, AmiPrefix) THEN [err |-> Err("format", 0), id |-> image]
        ELSE [err |-> NilErr, id |-> image]

\* runner.go:97-157 (and 159-218 for the worker image): an empty or logical
\* name is looked up in the parameter store, then the id must start with "ami-"
ResolveImage(image, ssmOK, ssmValue) ==
    LET lookup == image = StrEmpty \/ image \in operatingSystems
        id     == IF lookup THEN ssmValue ELSE image
    IN  IF lookup /\ ~ssmOK THEN [err |-> Err("ssm", 0), id |-> image]
        ELSE IF Len(id) = 0 THEN [err |-> Err("noimage", 0), id |-> id]
        ELSE IF ~HasPrefix(id, AmiPrefix) THEN [err |-> Err("format", 0), id |-> id]
        ELSE [err |-> NilErr, id |-> id]

\* runner.go:373-384: the error of EnsureRole is logged and overwritten; only
\* the error of EnsureInstanceProfile is returned
ensureInstanceProfileAndRole(roleOK, profileOK) ==
    IF profileOK THEN NilErr ELSE Err("profile", 0)

\* the ceiling on one role's rendered user-data, in bytes
UserDataCeiling == 16384

\* utils/s3.go:32-85 as prepareAWSImages uses it: a URL is not checked, a
\* plain bucket must list the version
ValidateS3Bucket(stage, versionListed) ==
    IF IsURL(stage) THEN NilErr
    ELSE IF versionListed THEN NilErr
    ELSE Err("version", 0)

\* runner.go:391-399: without --stage-version the version comes from the repo
SourceVersionErr(sourceVersionOK) ==
    IF sourceVersionOK THEN NilErr ELSE Err("sourceversion", 0)

\* a preparation that measures the control plane's user-data only
PrepareErrControlPlaneOnly(stage, versionListed, cpLen, wLen) ==
    IF ValidateS3Bucket(stage, versionListed) # NilErr
         THEN ValidateS3Bucket(stage, versionListed)
    ELSE IF cpLen > UserDataCeiling THEN Err("toolarge", 0)
    ELSE NilErr

\* runner.go:401-442: the bucket's content, then each role's
\* user-data is rendered and measured; the image list is the control plane
\* followed by NumNodes workers
PrepareErr(stage, versionListed, cpLen, wLen) ==
    IF ValidateS3Bucket(stage, versionListed) # NilErr
         THEN ValidateS3Bucket(stage, versionListed)
    ELSE IF cpLen > UserDataCeiling THEN Err("toolarge", 0)
    ELSE IF wLen > UserDataCeiling THEN Err("toolarge", 0)
    ELSE NilErr

PreparedImages(numNodes) == <<"control-plane">> \o [k \in 1..numNodes |-> "worker"]

\* the rendered lengths explored: below, at and above the ceiling
RenderedLens == {UserDataCeiling - 1, UserDataCeiling, UserDataCeiling + 1}

ImageInputs == {StrEmpty, StrAl2023, StrAmiA, StrBad}

SSMValues == {StrAmiA, StrBad}


\* ghost: the configuration errors a set of options holds, stated on the
\* options themselves (what the operator sees), stage by stage
When(b, kind) == IF b THEN {kind} ELSE {}

\* no stage location, or one whose bucket cannot be reached
CfgStage(stage, headOK) ==
    When(stage = "", "stage") \cup When(stage # "" /\ ~headOK, "bucket")

CfgImage(image, ssmOK, ssmValue) ==
    LET logical == image \in {StrEmpty, StrUbuntu, StrAl2023, StrAl2} IN
    When(logical /\ ~ssmOK, "ssm")
    \cup When((~logical /\ image # StrAmiA) \/ (logical /\ ssmOK /\ ssmValue # StrAmiA),
              "format")

\* the artifact version is not in the stage location, or a role's rendered
\* user-data is over the ceiling
CfgPrepare(stage, versionListed, cpLen, wLen) ==
    When(~versionListed, "version")
    \cup When(cpLen >= UserDataCeiling + 1 \/ wLen >= UserDataCeiling + 1, "toolarge")

\* the configuration errors `kinds`, found in options whose stage location is `stage`
Cfg(kinds, stage) == {[kind |-> k, stage |-> stage] : k \in kinds}

-----------------------------------------------------------------------------
(* deployer.Up, up.go:107-185 *)

TaskStates == {"none", "polling", "dumping", "sending", "ok", "failed", "panicked"}

\* an unrecovered panic in a goroutine ends the process, and so does the
\* klog.Fatalf of downloadKubeConfig (up.go:199-217)
Alive == (\A i \in InstanceIds : task[i] # "panicked") /\ ~exited

\* a task that counts as finished while it is still at its channel send
TaskFinishedAtSend(s) == s \in {"ok", "failed", "sending"}

\* the poll task of instance i has run to its end (its deferred wg.Done ran)
TaskFinished(s) == s \in {"ok", "failed"}

\* the error isAWSInstanceRunning returned for instance i
PollErr(i) == Err("poll", i)

\* IsUp has not been called
NoIsUp == [up |-> FALSE, err |-> Err("nocall", 0)]

\* the --kubeconfig flag (deployer.go:114): not given, or the path of a file
KubeconfigFlags == {"", "/given/kubeconfig"}

\* the temporary file downloadKubeConfig writes (up.go:203-218)
DownloadedPath == "/tmp/.kubeconfig-1"

OrchInit ==
    /\ pc = "idle"
    /\ upErr = NilErr
    /\ cfgErrs = {}
    /\ images = <<>>
    /\ li = 1
    /\ instances = <<>>
    /\ launched = {}
    /\ runCalls = 0
    /\ controlPlaneIP = NoIP
    /\ task = [i \in InstanceIds |-> "none"]
    /\ fatalErrors = "open"
    /\ wgDone = "nowaiter"
    /\ down = "none"
    /\ termFailing = {}
    /\ downAttempted = <<>>
    /\ downErr = NilErr
    /\ downLog = <<>>
    /\ kubectlGated = {}
    /\ KubeconfigPath = ""
    /\ downloads = <<>>
    /\ exited = FALSE
    /\ isUpCalls = 0
    /\ isUpRet = NoIsUp
    /\ repolled = {}
    /\ notRunning = {}
    /\ nodesListed = 0
    /\ cloudInitOn = {}

\* Up returns e from Validate (up.go:117-120): nothing was launched
ValidateFails(e, ghost) ==
    /\ pc' = "done"
    /\ upErr' = e
    /\ cfgErrs' = ghost
    /\ UNCHANGED images

\* Validate returned nil: runner.internalAWSImages is set (runner.go:224)
ValidatePasses(ghost, numNodes) ==
    /\ pc' = "launch"
    /\ upErr' = NilErr
    /\ cfgErrs' = ghost
    /\ images' = PreparedImages(numNodes)

\* up.go:110-120 with runner.go:79-229: verifyKubectl, NewAWSRunner, Validate
UpValidate ==
    /\ pc = "idle"
    /\ \E kubeconfig \in KubeconfigFlags : KubeconfigPath' = kubeconfig
    /\ \E kubectlFound \in BOOLEAN, servicesOK \in BOOLEAN :
         IF ~kubectlFound THEN ValidateFails(Err("kubectl", 0), {})
         ELSE IF ~servicesOK THEN ValidateFails(Err("services", 0), {})
         ELSE \E stage \in StageLocations, headOK \in BOOLEAN :
           LET g1 == Cfg(CfgStage(stage, headOK), stage) IN
           IF StageErr(stage, headOK) # NilErr
           THEN ValidateFails(StageErr(stage, headOK), g1)
           ELSE \E image \in ImageInputs, ssmOK \in BOOLEAN, ssmValue \in SSMValues :
             LET g2 == g1 \cup Cfg(CfgImage(image, ssmOK, ssmValue), stage)
                 r  == ResolveImage(image, ssmOK, ssmValue) IN
             IF r.err # NilErr THEN ValidateFails(r.err, g2)
             ELSE \E wImage \in ImageInputs, wSsmOK \in BOOLEAN, wSsmValue \in SSMValues :
               LET g3 == g2 \cup Cfg(CfgImage(wImage, wSsmOK, wSsmValue), stage)
                   w  == ResolveImage(wImage, wSsmOK, wSsmValue) IN
               IF w.err # NilErr THEN ValidateFails(w.err, g3)
               ELSE \E roleOK \in BOOLEAN, profileOK \in BOOLEAN :
                 IF ensureInstanceProfileAndRole(roleOK, profileOK) # NilErr
                 THEN ValidateFails(ensureInstanceProfileAndRole(roleOK, profileOK), g3)
                 ELSE \E sourceVersionOK \in BOOLEAN :
                   IF SourceVersionErr(sourceVersionOK) # NilErr
                   THEN ValidateFails(SourceVersionErr(sourceVersionOK), g3)
                   ELSE \E versionListed \in BOOLEAN, cpLen \in RenderedLens,
                           wLen \in RenderedLens, numNodes \in 0..MaxNodes :
                     LET g4 == g3 \cup Cfg(CfgPrepare(stage, versionListed, cpLen, wLen), stage)
                         e  == PrepareErr(stage, versionListed, cpLen, wLen) IN
                     IF e # NilErr THEN ValidateFails(e, g4)
                     ELSE ValidatePasses(g4, numNodes)
    /\ UNCHANGED <<li, instances, launched, runCalls, controlPlaneIP, task,
                   fatalErrors, wgDone, down, termFailing, downAttempted, downErr, downLog,
                   kubectlGated, downloads, exited, isUpVars, cloudInitOn,
                   nonOrchVars>>


\* what createAWSInstance can come to (runner.go:588-638, utils/ec2.go:30-108):
\*   ok       RunInstances succeeded and the instance has both addresses
\*   prefail  the subnet, image-metadata or profile lookup failed: no RunInstances
\*   runfail  the RunInstances call failed
\*   noip     RunInstances succeeded, an address is missing: (nil, error)
\*   panic    DescribeImages listed no image: utils/ec2.go:77 panics in Up's
\*            own goroutine and the process ends
LaunchOutcomes == {"ok", "prefail", "runfail", "noip", "panic"}

\* a seeding that lets every launch overwrite runner.controlPlaneIP
SeedAlways(cur, ip) == ip

\* up.go:138-140: runner.controlPlaneIP takes the private IP of a launched
\* instance only while it is still empty
SeedControlPlaneIP(cur, ip) == IF cur = NoIP THEN ip ELSE cur

\* up.go:126-156: one turn of the launch loop, for image li
UpLaunch ==
    /\ pc = "launch"
    /\ Alive
    /\ li <= Len(images)
    /\ \E outcome \in LaunchOutcomes :
         /\ runCalls' = runCalls + (IF outcome \in {"prefail", "panic"} THEN 0 ELSE 1)
         /\ launched' = IF outcome \in {"ok", "noip"} THEN launched \cup {li} ELSE launched
         /\ exited' = (outcome = "panic")
         /\ IF outcome = "ok"
            THEN /\ instances' = Append(instances, li)
                 /\ controlPlaneIP' = SeedControlPlaneIP(controlPlaneIP, PrivateIP(li))
                 /\ task' = [task EXCEPT ![li] = "polling"]
                 /\ li' = li + 1
                 /\ pc' = IF li = Len(images) THEN "select" ELSE "launch"
                 /\ wgDone' = IF li = Len(images) THEN "open" ELSE wgDone
                 /\ UNCHANGED upErr
            ELSE IF outcome = "panic"
            THEN UNCHANGED <<pc, upErr, instances, controlPlaneIP, task, li, wgDone>>
            ELSE /\ pc' = "done"
                 /\ upErr' = Err("launch", 0)
                 /\ UNCHANGED <<instances, controlPlaneIP, task, li, wgDone>>
    /\ UNCHANGED <<cfgErrs, images, fatalErrors, down, termFailing, downAttempted,
                   downErr, downLog, kubectlGated, KubeconfigPath, downloads,
                   isUpVars, cloudInitOn,
                   nonOrchVars>>

\* a comparison that holds for every instance
IsControlPlaneAlways(i) == TRUE

\* runner.go:315, 338: the poller takes instance i for the control plane when
\* runner.controlPlaneIP equals the private IP i was launched with
IsControlPlane(i) == controlPlaneIP = PrivateIP(i)

\* a test that asks for a download whatever the path is
NeedsDownloadAlways(path) == TRUE

\* runner.go:339, up.go:62: the kubeconfig is fetched only while
\* deployer.KubeconfigPath is empty
NeedsDownload(path) == path = ""

\* runner.go:335-348: what the end of a poll that found instance i ready does
\* to the kubeconfig: for the control plane with no path yet,
\* downloadKubeConfig is called; it returns the path of the file it wrote, or
\* ends the process
PollDownloads(i, path) == IsControlPlane(i) /\ NeedsDownload(path)

\* up.go:146, 154: isAWSInstanceRunning returned nil and the task ends; for
\* the control plane the last iteration went through runner.go:315-331 and the
\* kubeconfig was handled by runner.go:338-345
TaskPollOk(i) ==
    /\ Alive
    /\ task[i] = "polling"
    /\ kubectlGated' = IF IsControlPlane(i) THEN kubectlGated \cup {i} ELSE kubectlGated
    /\ IF PollDownloads(i, KubeconfigPath)
       THEN /\ downloads' = Append(downloads, i)
            /\ \E written \in BOOLEAN :
                 IF written
                 THEN /\ KubeconfigPath' = DownloadedPath
                      /\ task' = [task EXCEPT ![i] = "ok"]
                      /\ UNCHANGED exited
                 ELSE /\ exited' = TRUE
                      /\ UNCHANGED <<KubeconfigPath, task>>
       ELSE /\ task' = [task EXCEPT ![i] = "ok"]
            /\ UNCHANGED kubeconfigVars
    /\ UNCHANGED <<pc, upErr, cfgErrs, images, li, instances, launched, runCalls,
                   controlPlaneIP, fatalErrors, wgDone, down, termFailing,
                   downAttempted, downErr, downLog, isUpVars, cloudInitOn,
                   nonOrchVars>>

\* up.go:146-148: isAWSInstanceRunning returned an error; the kubectl gates
\* were reached only if some iteration of a control-plane poll passed the
\* gates before them
TaskPollFail(i) ==
    /\ Alive
    /\ task[i] = "polling"
    /\ task' = [task EXCEPT ![i] = "dumping"]
    /\ \E reachedKubectl \in BOOLEAN :
         kubectlGated' = IF IsControlPlane(i) /\ reachedKubectl
                         THEN kubectlGated \cup {i} ELSE kubectlGated
    /\ UNCHANGED <<pc, upErr, cfgErrs, images, li, instances, launched, runCalls,
                   controlPlaneIP, fatalErrors, wgDone, down, termFailing,
                   downAttempted, downErr, downLog, kubeconfigVars, isUpVars, cloudInitOn,
                   nonOrchVars>>

\* up.go:149-152: the task dumps the cluster logs and reaches its channel send
TaskDump(i) ==
    /\ Alive
    /\ task[i] = "dumping"
    /\ task' = [task EXCEPT ![i] = "sending"]
    /\ UNCHANGED <<pc, upErr, cfgErrs, images, li, instances, launched, runCalls,
                   controlPlaneIP, fatalErrors, wgDone, down, termFailing,
                   downAttempted, downErr, sessVars, nonOrchVars>>

\* up.go:152 after up.go:167: a send on the closed fatalErrors channel panics
TaskSendPanic(i) ==
    /\ Alive
    /\ task[i] = "sending"
    /\ fatalErrors = "closed"
    /\ task' = [task EXCEPT ![i] = "panicked"]
    /\ UNCHANGED <<pc, upErr, cfgErrs, images, li, instances, launched, runCalls,
                   controlPlaneIP, fatalErrors, wgDone, down, termFailing,
                   downAttempted, downErr, sessVars, nonOrchVars>>

\* a receive that is ready only once no other task is still at work
SelectReadyAfterAll(i) ==
    /\ task[i] = "sending"
    /\ \A j \in InstanceIds : task[j] \notin {"polling", "dumping"}

\* the select's receive case is ready for task i: fatalErrors is unbuffered,
\* so the send of up.go:152 completes only against the receive of up.go:166
SelectReady(i) == task[i] = "sending"

\* up.go:166-168: Up receives task i's error, closes the channel and returns
\* it; the sender goes on to its end
UpSelectErr ==
    /\ pc = "select"
    /\ Alive
    /\ fatalErrors = "open"
    /\ \E i \in InstanceIds :
         /\ SelectReady(i)
         /\ task[i] = "sending"
         /\ task' = [task EXCEPT ![i] = "failed"]
         /\ upErr' = PollErr(i)
    /\ fatalErrors' = "closed"
    /\ pc' = "done"
    /\ UNCHANGED <<cfgErrs, images, li, instances, launched, runCalls, controlPlaneIP,
                   wgDone, down, termFailing, downAttempted, downErr, sessVars, nonOrchVars>>

\* up.go:158-161: wg.Wait returns once every task has called Done, and
\* wgDone is closed
WgWait ==
    /\ Alive
    /\ wgDone = "open"
    /\ \A i \in InstanceIds : task[i] # "none" => TaskFinished(task[i])
    /\ wgDone' = "closed"
    /\ UNCHANGED <<pc, upErr, cfgErrs, images, li, instances, launched, runCalls,
                   controlPlaneIP, task, fatalErrors, down, termFailing,
                   downAttempted, downErr, sessVars, nonOrchVars>>

\* up.go:164-165: the select takes the wgDone case
UpSelectDone ==
    /\ pc = "select"
    /\ Alive
    /\ wgDone = "closed"
    /\ pc' = "postinstall"
    /\ UNCHANGED <<upErr, cfgErrs, images, li, instances, launched, runCalls,
                   controlPlaneIP, task, fatalErrors, wgDone, down, termFailing,
                   downAttempted, downErr, sessVars, nonOrchVars>>

\* a wait that queries the instance tracked last
CloudInitTargetLast(insts) == insts[Len(insts)]

\* up.go:236: controlPlane := d.runner.instances[0], the instance whose
\* `cloud-init status` waitForCloudInitComplete asks for
CloudInitTarget(insts) == insts[1]

\* up.go:171-184: the PostInstall waits; none of them fails Up.
\* waitForCloudInitComplete (up.go:230-272) runs its command at least once
UpPostInstall ==
    /\ pc = "postinstall"
    /\ Alive
    /\ pc' = "done"
    /\ upErr' = NilErr
    /\ cloudInitOn' = IF instances = <<>> THEN {} ELSE {CloudInitTarget(instances)}
    /\ UNCHANGED <<cfgErrs, images, li, instances, launched, runCalls, controlPlaneIP,
                   task, fatalErrors, wgDone, down, termFailing, downAttempted, downErr,
                   downLog, kubectlGated, kubeconfigVars, isUpVars, nonOrchVars>>

-----------------------------------------------------------------------------
(* deployer.Down, deployer.go:139-153 *)

\* the position in insts of the first id whose terminate call fails (0: none)
FirstFailing(insts, failing) ==
    IF \E k \in 1..Len(insts) : insts[k] \in failing
    THEN CHOOSE k \in 1..Len(insts) :
           /\ insts[k] \in failing
           /\ \A j \in 1..(k - 1) : insts[j] \notin failing
    ELSE 0

\* deployer.go:143-151: the ids a TerminateInstances call is issued for: the
\* loop returns at the first call that fails
TerminateCalls(insts, failing) ==
    IF FirstFailing(insts, failing) = 0 THEN insts
    ELSE SubSeq(insts, 1, FirstFailing(insts, failing))

\* deployer.go:147-149 and 152
DownResult(insts, failing) ==
    IF FirstFailing(insts, failing) = 0 THEN NilErr
    ELSE Err("terminate", insts[FirstFailing(insts, failing)])

\* a Down that gives up when the dump fails
DownLogStopsAtDump(dumpOK, insts, failing) ==
    <<[op |-> "dump", id |-> 0, ok |-> dumpOK]>>
    \o (IF dumpOK
        THEN [k \in 1..Len(TerminateCalls(insts, failing)) |->
                [op |-> "terminate", id |-> TerminateCalls(insts, failing)[k],
                 ok |-> TerminateCalls(insts, failing)[k] \notin failing]]
        ELSE <<>>)

\* deployer.go:139-153: Down calls DumpClusterLogs (dump.go:29-53) first; its
\* error is logged as a warning and the terminate loop runs all the same
DownLog(dumpOK, insts, failing) ==
    <<[op |-> "dump", id |-> 0, ok |-> dumpOK]>>
    \o [k \in 1..Len(TerminateCalls(insts, failing)) |->
          [op |-> "terminate", id |-> TerminateCalls(insts, failing)[k],
           ok |-> TerminateCalls(insts, failing)[k] \notin failing]]

\* Down, called once Up has returned with a runner in place
Down ==
    /\ pc = "done"
    /\ Alive
    /\ down = "none"
    /\ upErr.kind # "kubectl"
    /\ \E failing \in SUBSET {instances[k] : k \in 1..Len(instances)},
          dumpOK \in BOOLEAN :
         /\ termFailing' = failing
         /\ downAttempted' = TerminateCalls(instances, failing)
         /\ downErr' = DownResult(instances, failing)
         /\ downLog' = DownLog(dumpOK, instances, failing)
    /\ down' = "done"
    /\ UNCHANGED <<pc, upErr, cfgErrs, images, li, instances, launched, runCalls,
                   controlPlaneIP, task, fatalErrors, wgDone,
                   kubectlGated, kubeconfigVars, isUpVars, cloudInitOn,
                   nonOrchVars>>

-----------------------------------------------------------------------------
(* deployer.IsUp, up.go:52-87 *)

\* the number of IsUp calls explored
MaxIsUpCalls == 2

\* the number of lines `kubectl get nodes -o=name` may print
NodeLines == 0..2

\* up.go:53-69: the instances IsUp calls isAWSInstanceRunning for: the loop
\* over runner.instances ends with a break, so only the first one
Repolled(insts) == IF insts = <<>> THEN {} ELSE {insts[1]}

\* up.go:70-86: what IsUp returns once the loop is passed
IsUpResult(kubectlOK, lines) ==
    IF ~kubectlOK THEN [up |-> FALSE, err |-> Err("getnodes", 0)]
    ELSE [up |-> lines > 0, err |-> NilErr]

\* IsUp, called after an Up that returned nil
IsUp ==
    /\ pc = "done"
    /\ upErr = NilErr
    /\ Alive
    /\ down = "none"
    /\ isUpCalls < MaxIsUpCalls
    /\ isUpCalls' = isUpCalls + 1
    /\ \E failing \in SUBSET {instances[k] : k \in 1..Len(instances)},
          kubectlOK \in BOOLEAN, lines \in NodeLines, written \in BOOLEAN :
         LET polled == Repolled(instances)
             \* runner.go:338-345, inside the re-poll of a ready instance
             inPoll == {i \in polled : PollDownloads(i, KubeconfigPath)}
             path1  == IF inPoll = {} THEN KubeconfigPath ELSE DownloadedPath
             \* up.go:62-67, after the re-poll
             inIsUp == {i \in polled : NeedsDownload(path1)}
             calls  == [k \in 1..Cardinality(inPoll) |-> instances[1]]
                       \o [k \in 1..Cardinality(inIsUp) |-> instances[1]]
         IN
         /\ notRunning' = failing
         /\ repolled' = polled
         /\ IF polled \cap failing # {}
            THEN /\ isUpRet' = [up |-> FALSE, err |-> PollErr(instances[1])]
                 /\ nodesListed' = 0
                 /\ UNCHANGED <<kubectlGated, kubeconfigVars>>
            ELSE /\ kubectlGated' = kubectlGated \cup {i \in polled : IsControlPlane(i)}
                 /\ IF calls # <<>> /\ ~written
                    THEN /\ downloads' = Append(downloads, calls[1])
                         /\ exited' = TRUE
                         /\ UNCHANGED <<KubeconfigPath, isUpRet, nodesListed>>
                    ELSE /\ downloads' = downloads \o calls
                         /\ KubeconfigPath' = IF calls # <<>> THEN DownloadedPath
                                               ELSE KubeconfigPath
                         /\ nodesListed' = IF kubectlOK THEN lines ELSE 0
                         /\ isUpRet' = IsUpResult(kubectlOK, lines)
                         /\ UNCHANGED exited
    /\ UNCHANGED <<pc, upErr, cfgErrs, images, li, instances, launched, runCalls,
                   controlPlaneIP, task, fatalErrors, wgDone, down, termFailing,
                   downAttempted, downErr, downLog, cloudInitOn,
                   nonOrchVars>>

-----------------------------------------------------------------------------
(* AWSRunner.isAWSInstanceRunning, runner.go:231-349, for one instance *)

\* the instance the poll is about
PolledId == 1

\* a poll error: its kind, the instance id its message names, and the remote
\* output its message carries (NoDetail: the message carries no output)
NoDetail == <<>>

PErr(kind, id, detail) == [kind |-> kind, id |-> id, detail |-> detail]

NoPErr == PErr("nil", 0, NoDetail)

NoFail == [gate |-> "none", out |-> {}]

\* the cap of the readiness loop (runner.go:243)
MaxPollIterations == 30

\* strings.Contains on a remote output, an output being the set of the words in it
Contains(out, word) == word \in out

\* what the remote commands are seen to answer: the ssh error and the output
ContainerdObservations ==
    {[sshErr |-> TRUE, out |-> {}],
     [sshErr |-> FALSE, out |-> {"containerd.service"}],
     [sshErr |-> FALSE, out |-> {"crio.service"}],
     [sshErr |-> FALSE, out |-> {"sshd.service"}]}

\* systemctl status cloud-init.service: a failed unit ("failed") makes
\* systemctl exit non-zero, which remote.SSH reports as an error
CloudInitObservations ==
    {[sshErr |-> TRUE, out |-> {}],
     [sshErr |-> TRUE, out |-> {"failed"}],
     [sshErr |-> FALSE, out |-> {"active", "running"}],
     [sshErr |-> FALSE, out |-> {"active", "exited"}]}

GetNodesObservations ==
    {[sshErr |-> TRUE, out |-> {}],
     [sshErr |-> FALSE, out |-> {}],
     [sshErr |-> FALSE, out |-> {"node/"}]}

\* runner.go:294-303
ContainerdVerdict(o) ==
    IF o.sshErr THEN "retry"
    ELSE IF ~Contains(o.out, "containerd.service") /\ ~Contains(o.out, "crio.service")
         THEN "retry"
    ELSE "pass"

\* runner.go:305-313: every outcome but an output with "exited" is a continue
CloudInitVerdict(o) ==
    IF o.sshErr THEN "retry"
    ELSE IF ~Contains(o.out, "exited") THEN "retry"
    ELSE "pass"

\* runner.go:321-329
GetNodesVerdict(o) ==
    IF o.sshErr THEN "retry"
    ELSE IF ~Contains(o.out, "node/") THEN "retry"
    ELSE "pass"

\* a key gate that runs in every iteration
NeedsSSHKeyEveryTime == instanceConnect

\* runner.go:279: the key gate runs with instance-connect on and no key yet
NeedsSSHKey == instanceConnect /\ ~createdSSHKey

PollInit ==
    /\ ppc = "wait"
    /\ iter = 0
    /\ instanceRunning = FALSE
    /\ createdSSHKey = FALSE
    /\ isControlPlane \in BOOLEAN
    /\ instanceConnect \in BOOLEAN
    /\ attempted = <<>>
    /\ lastFail = NoFail
    /\ pollRet = NoPErr
    /\ wpc = "idle"
    /\ elapsed = 0
    /\ wErr = NoPErr
    /\ wSeen = {}
    /\ upResult = PErr("unset", 0, NoDetail)

\* the poller is not part of the run
PollIdle ==
    /\ ppc = "off"
    /\ iter = 0
    /\ instanceRunning = FALSE
    /\ createdSSHKey = FALSE
    /\ isControlPlane = FALSE
    /\ instanceConnect = FALSE
    /\ attempted = <<>>
    /\ lastFail = NoFail
    /\ pollRet = NoPErr
    /\ wpc = "idle"
    /\ elapsed = 0
    /\ wErr = NoPErr
    /\ wSeen = {}
    /\ upResult = PErr("unset", 0, NoDetail)

\* the gate tried, its outcome and what the remote command printed
Tried(gate, ok, out) == [gate |-> gate, ok |-> ok, out |-> out]

\* a failed gate that lets the iteration go on with the gate after it
ContinueFallsThrough(gate, out) ==
    /\ ppc' = CASE gate = "describe" -> "netif"
                [] gate = "netif" -> "containerd"
                [] gate = "sshkey" -> "containerd"
                [] gate = "containerd" -> "cloudinit"
                [] gate = "cloudinit" -> "kubectlVersion"
                [] gate = "kubectlVersion" -> "getNodes"
                [] OTHER -> "exit"
    /\ iter' = IF gate = "getNodes" THEN iter + 1 ELSE iter
    /\ lastFail' = [gate |-> gate, out |-> out]
    /\ UNCHANGED instanceRunning

\* a failed gate that ends the loop at once
ContinueAborts(gate, out) ==
    /\ iter' = iter + 1
    /\ ppc' = "exit"
    /\ lastFail' = [gate |-> gate, out |-> out]
    /\ UNCHANGED instanceRunning

\* a `continue` in a loop that has no cap
ContinueUncapped(gate, out) ==
    /\ iter' = iter + 1
    /\ ppc' = "describe"
    /\ lastFail' = [gate |-> gate, out |-> out]
    /\ UNCHANGED instanceRunning

\* a `continue` (and the loop's i++ and test, runner.go:243): the next
\* iteration, or the end of the loop at the cap
Continue(gate, out) ==
    /\ iter' = iter + 1
    /\ ppc' = IF iter + 1 < MaxPollIterations THEN "describe" ELSE "exit"
    /\ lastFail' = [gate |-> gate, out |-> out]
    /\ UNCHANGED instanceRunning

\* the gate passed: on to the gate `next`
Proceed(next) ==
    /\ ppc' = next
    /\ UNCHANGED <<iter, lastFail, instanceRunning>>

\* runner.go:332 and the loop's test: every gate passed, the loop ends
LoopSucceeds ==
    /\ instanceRunning' = TRUE
    /\ iter' = iter + 1
    /\ ppc' = "exit"
    /\ UNCHANGED lastFail

\* runner.go:236-242: the InstanceRunning waiter, bounded by 5 minutes
PollWaitRunning ==
    /\ ppc = "wait"
    /\ \E started \in BOOLEAN :
         IF started
         THEN /\ ppc' = "describe"
              /\ UNCHANGED pollRet
         ELSE /\ ppc' = "returned"
              /\ pollRet' = PErr("didnotstart", PolledId, NoDetail)
    /\ UNCHANGED <<iter, instanceRunning, createdSSHKey, isControlPlane, instanceConnect,
                   attempted, lastFail, waitVars, nonPollVars>>

\* runner.go:248-258: DescribeInstances answers and the state is running
GateDescribe ==
    /\ ppc = "describe"
    /\ \E r \in {"apierr", "pending", "running"} :
         /\ attempted' = <<Tried("describe", r = "running", {})>>
         /\ IF r = "running" THEN Proceed("netif") ELSE Continue("describe", {})
    /\ UNCHANGED <<createdSSHKey, isControlPlane, instanceConnect, pollRet, waitVars, nonPollVars>>

\* runner.go:259-276: a network interface is there; its source/dest check is
\* switched off best-effort and the addresses are recorded
GateNetif ==
    /\ ppc = "netif"
    /\ \E present \in BOOLEAN, modifyOK \in BOOLEAN :
         /\ attempted' = Append(attempted, Tried("netif", present, {}))
         /\ IF present
            THEN Proceed(IF NeedsSSHKey THEN "sshkey" ELSE "containerd")
            ELSE Continue("netif", {})
    /\ UNCHANGED <<createdSSHKey, isControlPlane, instanceConnect, pollRet, waitVars, nonPollVars>>

\* runner.go:279-287: assignNewSSHKey
GateSSHKey ==
    /\ ppc = "sshkey"
    /\ \E ok \in BOOLEAN :
         /\ attempted' = Append(attempted, Tried("sshkey", ok, {}))
         /\ createdSSHKey' = ok
         /\ IF ok THEN Proceed("containerd") ELSE Continue("sshkey", {})
    /\ UNCHANGED <<isControlPlane, instanceConnect, pollRet, waitVars,
                   nonPollVars>>

\* runner.go:289-303: containerd or crio is among the running services
GateContainerd ==
    /\ ppc = "containerd"
    /\ \E o \in ContainerdObservations :
         /\ attempted' = Append(attempted,
                                Tried("containerd", ContainerdVerdict(o) = "pass", o.out))
         /\ IF ContainerdVerdict(o) = "pass" THEN Proceed("cloudinit")
            ELSE Continue("containerd", o.out)
    /\ UNCHANGED <<createdSSHKey, isControlPlane, instanceConnect, pollRet, waitVars, nonPollVars>>

\* runner.go:305-315: cloud-init.service has exited
GateCloudInit ==
    /\ ppc = "cloudinit"
    /\ \E o \in CloudInitObservations :
         /\ attempted' = Append(attempted,
                                Tried("cloudinit", CloudInitVerdict(o) = "pass", o.out))
         /\ IF CloudInitVerdict(o) = "pass"
            THEN IF isControlPlane THEN Proceed("kubectlVersion") ELSE LoopSucceeds
            ELSE Continue("cloudinit", o.out)
    /\ UNCHANGED <<createdSSHKey, isControlPlane, instanceConnect, pollRet, waitVars, nonPollVars>>

\* runner.go:316-320: kubectl version against the admin credentials
GateKubectlVersion ==
    /\ ppc = "kubectlVersion"
    /\ \E sshErr \in BOOLEAN :
         /\ attempted' = Append(attempted, Tried("kubectlVersion", ~sshErr, {}))
         /\ IF sshErr THEN Continue("kubectlVersion", {}) ELSE Proceed("getNodes")
    /\ UNCHANGED <<createdSSHKey, isControlPlane, instanceConnect, pollRet, waitVars, nonPollVars>>

\* runner.go:321-332: kubectl get nodes lists a node
GateGetNodes ==
    /\ ppc = "getNodes"
    /\ \E o \in GetNodesObservations :
         /\ attempted' = Append(attempted,
                                Tried("getNodes", GetNodesVerdict(o) = "pass", o.out))
         /\ IF GetNodesVerdict(o) = "pass" THEN LoopSucceeds
            ELSE Continue("getNodes", o.out)
    /\ UNCHANGED <<createdSSHKey, isControlPlane, instanceConnect, pollRet, waitVars, nonPollVars>>

\* runner.go:335-336: the error of a poll whose iterations all failed: it is
\* built from the instance id alone (the err set inside the loop is local to
\* the loop's body)
NotRunningErr(id, fail) == PErr("notrunning", id, NoDetail)

\* runner.go:335-348
PollReturn ==
    /\ ppc = "exit"
    /\ ppc' = "returned"
    /\ pollRet' = IF instanceRunning THEN NoPErr ELSE NotRunningErr(PolledId, lastFail)
    /\ UNCHANGED <<iter, instanceRunning, createdSSHKey, isControlPlane, instanceConnect,
                   attempted, lastFail, waitVars, nonPollVars>>

-----------------------------------------------------------------------------
(* deployer.waitForCloudInitComplete, up.go:230-272, and what Up does with its
   result, up.go:177-184: the PostInstall of a control plane whose poll passed *)

\* up.go:240, in seconds
CloudInitTimeout == 300

\* up.go:241, in seconds
CloudInitPollInterval == 10

\* what `cloud-init status` is seen to answer
CloudInitStatusObservations ==
    {[sshErr |-> TRUE, out |-> {}],
     [sshErr |-> FALSE, out |-> {"status: running"}],
     [sshErr |-> FALSE, out |-> {"status: done"}],
     [sshErr |-> FALSE, out |-> {"status: error"}]}

\* up.go:247-268
WaitVerdict(o) ==
    IF o.sshErr THEN "retry"
    ELSE IF Contains(o.out, "status: done") THEN "done"
    ELSE IF Contains(o.out, "status: error") THEN "error"
    ELSE "retry"

\* up.go:171-177: Up reaches the wait once the poll of its control plane passed
WaitStart ==
    /\ ppc = "returned"
    /\ pollRet = NoPErr
    /\ isControlPlane
    /\ wpc = "idle"
    /\ wpc' = "polling"
    /\ UNCHANGED <<ppc, iter, instanceRunning, createdSSHKey, isControlPlane,
                   instanceConnect, attempted, lastFail, pollRet, elapsed, wErr,
                   wSeen, upResult, nonPollVars>>

\* up.go:244-271: one turn of the wait's loop (the time a remote command
\* takes is not counted: it only makes the turns fewer)
WaitPoll ==
    /\ wpc = "polling"
    /\ IF elapsed >= CloudInitTimeout
       THEN /\ wpc' = "returned"
            /\ wErr' = PErr("cloudinit-timeout", 0, NoDetail)
            /\ UNCHANGED <<elapsed, wSeen>>
       ELSE \E o \in CloudInitStatusObservations :
              /\ wSeen' = o.out
              /\ IF WaitVerdict(o) = "retry"
                 THEN /\ elapsed' = elapsed + CloudInitPollInterval
                      /\ UNCHANGED <<wpc, wErr>>
                 ELSE /\ wpc' = "returned"
                      /\ wErr' = IF WaitVerdict(o) = "done" THEN NoPErr
                                 ELSE PErr("cloudinit-error", 0, NoDetail)
                      /\ UNCHANGED elapsed
    /\ UNCHANGED <<ppc, iter, instanceRunning, createdSSHKey, isControlPlane,
                   instanceConnect, attempted, lastFail, pollRet, upResult, nonPollVars>>

\* up.go:177-184: an error of the wait is logged as a warning and Up returns nil
UpAfterWait ==
    /\ wpc = "returned"
    /\ upResult.kind = "unset"
    /\ upResult' = NoPErr
    /\ UNCHANGED <<ppc, iter, instanceRunning, createdSSHKey, isControlPlane,
                   instanceConnect, attempted, lastFail, pollRet, wpc, elapsed, wErr,
                   wSeen, nonPollVars>>

-----------------------------------------------------------------------------
(* The user-data composer: AWSRunner.getUserData (runner.go:444-586),
   AWSRunner.prepareAWSImages (runner.go:386-442) and the launch-time
   substitution of utils.LaunchNewInstance (utils/ec2.go:88-91).

   A document is the number of its bytes outside placeholders (lit) and, per
   placeholder, the number of its occurrences (toks).  A placeholder is the
   string "{{NAME}}": no placeholder is part of another, so strings.ReplaceAll
   on one leaves the occurrences of the others alone. *)

\* a substitution list without the role placeholder
GetUserDataTokensWithoutRole ==
    <<"{{STAGING_BUCKET}}", "{{STAGING_VERSION}}", "{{KUBEADM_TOKEN}}",
      "{{KUBEADM_CERTIFICATE_KEY}}", "{{KUBEADM_CLUSTER_ID}}", "{{CONFIGURE_SH}}",
      "{{KUBEADM_INIT_YAML}}", "{{KUBEADM_JOIN_YAML}}", "{{RUN_KUBEADM_SH}}",
      "{{CONTAINERD_INSTALL_SERVICE}}", "{{CONTAINERD_SERVICE}}",
      "{{CONTAINERD_TARGET}}", "{{KUBEADM_CONF}}", "{{KUBELET_SERVICE}}",
      "{{CREDENTIAL_PROVIDER_YAML}}", "{{FEATURE_GATES}}",
      "{{EXTERNAL_CLOUD_PROVIDER}}", "{{EXTERNAL_CLOUD_PROVIDER_IMAGE}}",
      "{{EXTERNAL_LOAD_BALANCER}}", "{{ENABLE_NVIDIA_DEVICE_PLUGIN}}",
      "{{RUN_POST_INSTALL_SH}}">>

\* the placeholders getUserData replaces, in the order of runner.go:473-584
GetUserDataTokens ==
    <<"{{STAGING_BUCKET}}", "{{STAGING_VERSION}}", "{{KUBEADM_TOKEN}}",
      "{{KUBEADM_CERTIFICATE_KEY}}", "{{KUBEADM_CLUSTER_ID}}", "{{CONFIGURE_SH}}",
      "{{KUBEADM_INIT_YAML}}", "{{KUBEADM_JOIN_YAML}}", "{{RUN_KUBEADM_SH}}",
      "{{CONTAINERD_INSTALL_SERVICE}}", "{{CONTAINERD_SERVICE}}",
      "{{CONTAINERD_TARGET}}", "{{KUBEADM_CONF}}", "{{KUBELET_SERVICE}}",
      "{{CREDENTIAL_PROVIDER_YAML}}", "{{FEATURE_GATES}}",
      "{{EXTERNAL_CLOUD_PROVIDER}}", "{{EXTERNAL_CLOUD_PROVIDER_IMAGE}}",
      "{{EXTERNAL_LOAD_BALANCER}}", "{{ENABLE_NVIDIA_DEVICE_PLUGIN}}",
      "{{RUN_POST_INSTALL_SH}}", "{{KUBEADM_CONTROL_PLANE}}">>

\* the placeholder LaunchNewInstance replaces (utils/ec2.go:89)
LaunchToken == "{{KUBEADM_CONTROL_PLANE_IP}}"

\* the placeholders of al2023.sh's kubeadm-join.yaml heredoc that the script
\* itself fills in on the instance (al2023.sh:58-64, 99-101)
BootTokens == {"{{HOSTNAME_OVERRIDE}}", "{{PROVIDER_ID}}", "{{NODE_IP}}"}

\* the placeholders whose value is a gzip+base64 sub-document: the encoding
\* is over the base64 alphabet, which has no brace
SubDocTokens ==
    {"{{KUBEADM_INIT_YAML}}", "{{KUBEADM_JOIN_YAML}}", "{{RUN_KUBEADM_SH}}",
     "{{CONTAINERD_INSTALL_SERVICE}}", "{{CONTAINERD_SERVICE}}",
     "{{CONTAINERD_TARGET}}", "{{KUBEADM_CONF}}", "{{KUBELET_SERVICE}}",
     "{{CREDENTIAL_PROVIDER_YAML}}", "{{RUN_POST_INSTALL_SH}}"}

\* every placeholder of the templates, listed once
TokenList ==
    <<"{{STAGING_BUCKET}}", "{{STAGING_VERSION}}", "{{KUBEADM_TOKEN}}",
      "{{KUBEADM_CERTIFICATE_KEY}}", "{{KUBEADM_CLUSTER_ID}}", "{{CONFIGURE_SH}}",
      "{{KUBEADM_INIT_YAML}}", "{{KUBEADM_JOIN_YAML}}", "{{RUN_KUBEADM_SH}}",
      "{{CONTAINERD_INSTALL_SERVICE}}", "{{CONTAINERD_SERVICE}}",
      "{{CONTAINERD_TARGET}}", "{{KUBEADM_CONF}}", "{{KUBELET_SERVICE}}",
      "{{CREDENTIAL_PROVIDER_YAML}}", "{{FEATURE_GATES}}",
      "{{EXTERNAL_CLOUD_PROVIDER}}", "{{EXTERNAL_CLOUD_PROVIDER_IMAGE}}",
      "{{EXTERNAL_LOAD_BALANCER}}", "{{ENABLE_NVIDIA_DEVICE_PLUGIN}}",
      "{{RUN_POST_INSTALL_SH}}", "{{KUBEADM_CONTROL_PLANE}}",
      "{{KUBEADM_CONTROL_PLANE_IP}}",
      "{{HOSTNAME_OVERRIDE}}", "{{PROVIDER_ID}}", "{{NODE_IP}}">>

Tokens == {TokenList[k] : k \in 1..Len(TokenList)}

\* the occurrences of each placeholder in a template, from the listed ones
Occurrences(listed) == [t \in Tokens |-> IF t \in DOMAIN listed THEN listed[t] ELSE 0]

RECURSIVE TokenBytes(_, _)
\* the bytes the placeholder occurrences `toks` take, over the first k placeholders
TokenBytes(toks, k) ==
    IF k = 0 THEN 0
    ELSE toks[TokenList[k]] * Len(TokenList[k]) + TokenBytes(toks, k - 1)

\* a template file of `bytes` bytes with the placeholder occurrences `listed`
Template(bytes, listed) ==
    [lit  |-> bytes - TokenBytes(Occurrences(listed), Len(TokenList)),
     toks |-> Occurrences(listed)]

\* len(userdata)
Length(doc) == doc.lit + TokenBytes(doc.toks, Len(TokenList))

\* the size of the embedded ubuntu2404.yaml, in bytes
Ubuntu2404Bytes == 3991

\* the size of the embedded al2023.sh, in bytes
Al2023Bytes == 9639

\* the embedded cloud-config template
Ubuntu2404Yaml ==
    Template(Ubuntu2404Bytes,
             [t \in SubDocTokens \cup {"{{CONFIGURE_SH}}", LaunchToken} |-> 1]
             @@ ("{{KUBEADM_CONTROL_PLANE}}" :> 2))

\* the embedded shell template
Al2023Sh ==
    Template(Al2023Bytes,
             (LaunchToken :> 1) @@ ("{{KUBEADM_TOKEN}}" :> 1)
             @@ ("{{FEATURE_GATES}}" :> 1) @@ ("{{EXTERNAL_CLOUD_PROVIDER}}" :> 1)
             @@ ("{{HOSTNAME_OVERRIDE}}" :> 3) @@ ("{{PROVIDER_ID}}" :> 2)
             @@ ("{{NODE_IP}}" :> 2) @@ ("{{STAGING_BUCKET}}" :> 5)
             @@ ("{{STAGING_VERSION}}" :> 3))

\* config.ConfigFS.ReadFile(dataFile), runner.go:446-470
UserDataFiles == {"ubuntu2404.yaml", "al2023.sh"}

ReadFile(dataFile) == IF dataFile = "al2023.sh" THEN Al2023Sh ELSE Ubuntu2404Yaml

\* strings.ReplaceAll(doc, token, value) for a value of valueLen bytes that
\* holds no placeholder
ReplaceAll(doc, token, valueLen) ==
    [lit  |-> doc.lit + doc.toks[token] * valueLen,
     toks |-> [doc.toks EXCEPT ![token] = 0]]

\* the encoded size explored for each embedded sub-document, in bytes
SubDocLen == 400

\* the length of the value getUserData puts in place of `token` for the role
\* (runner.go:473-584) under the options o
ValueLen(token, controlPlane, o) ==
    CASE token = "{{STAGING_BUCKET}}" -> Len(o.stage)
      [] token = "{{STAGING_VERSION}}" -> Len("v1.31.0")
      [] token = "{{KUBEADM_TOKEN}}" -> 6 + Len(".") + 16
      [] token = "{{KUBEADM_CERTIFICATE_KEY}}" -> 2 * 32
      [] token = "{{KUBEADM_CLUSTER_ID}}" -> Len("cid-") + 8
      [] token = "{{CONFIGURE_SH}}" -> o.configureLen
      [] token \in SubDocTokens -> SubDocLen
      [] token = "{{FEATURE_GATES}}" -> o.gatesLen
      [] token = "{{EXTERNAL_CLOUD_PROVIDER}}" ->
             IF o.external THEN Len("external") ELSE Len("")
      [] token = "{{EXTERNAL_CLOUD_PROVIDER_IMAGE}}" -> Len("")
      [] token = "{{EXTERNAL_LOAD_BALANCER}}" ->
             IF o.elb THEN Len("true") ELSE Len("false")
      [] token = "{{ENABLE_NVIDIA_DEVICE_PLUGIN}}" ->
             IF o.nvidia THEN Len("true") ELSE Len("false")
      [] token = "{{KUBEADM_CONTROL_PLANE}}" ->
             IF controlPlane THEN Len("true") ELSE Len("false")

RECURSIVE ReplaceEach(_, _, _, _, _)
\* the ReplaceAll calls of getUserData from the k-th on
ReplaceEach(doc, tokens, k, controlPlane, o) ==
    IF k > Len(tokens) THEN doc
    ELSE ReplaceEach(ReplaceAll(doc, tokens[k], ValueLen(tokens[k], controlPlane, o)),
                     tokens, k + 1, controlPlane, o)

\* runner.go:444-586
getUserData(dataFile, controlPlane, o) ==
    ReplaceEach(ReadFile(dataFile), GetUserDataTokens, 1, controlPlane, o)

\* runner.go:386-442: the error, and the image specs (none with an error)
prepareAWSImages(o) ==
    LET userControlPlane   == getUserData(o.cpFile, TRUE, o)
        userDataWorkerNode == getUserData(o.wFile, FALSE, o)
        e == IF SourceVersionErr(o.sourceVersionOK) # NilErr
             THEN SourceVersionErr(o.sourceVersionOK)
             ELSE PrepareErr(o.stage, o.versionListed,
                             Length(userControlPlane), Length(userDataWorkerNode))
    IN  [err |-> e,
         ret |-> IF e # NilErr THEN <<>>
                 ELSE <<[role |-> "control-plane", UserData |-> userControlPlane]>>
                      \o [k \in 1..o.numNodes |->
                            [role |-> "worker", UserData |-> userDataWorkerNode]]]

\* how far from the ceiling the rendered lengths explored lie
MaxSlack == 1

Slack == (0 - MaxSlack)..MaxSlack

\* the options explored, before the two free lengths are set
BaseOptions ==
    [cpFile : UserDataFiles, wFile : UserDataFiles,
     external : BOOLEAN, elb : BOOLEAN, nvidia : BOOLEAN,
     stage : {"bucket", "s3://bucket"},
     versionListed : BOOLEAN, sourceVersionOK : BOOLEAN,
     numNodes : 0..MaxNodes,
     gatesLen : {0}, configureLen : {0}]

\* the length of the free value of dataFile (--feature-gates for al2023.sh,
\* configure.sh for ubuntu2404.yaml) that renders the role's user-data d
\* bytes from the ceiling
Fill(dataFile, controlPlane, b, d) ==
    UserDataCeiling + d - Length(getUserData(dataFile, controlPlane, b))

FreeLen(dataFile, b, dCp, dW) ==
    IF b.cpFile = dataFile THEN Fill(dataFile, TRUE, b, dCp)
    ELSE IF b.wFile = dataFile THEN Fill(dataFile, FALSE, b, dW)
    ELSE 0

DataOptions ==
    {[b EXCEPT !.gatesLen = FreeLen("al2023.sh", b, dCp, dW),
               !.configureLen = FreeLen("ubuntu2404.yaml", b, dCp, dW)] :
        b \in BaseOptions, dCp \in Slack, dW \in Slack}

\* the private address the first instance is given
FirstPrivateIP == "10.0.0.12"

DataInit ==
    /\ dpc = "start"
    /\ opts \in DataOptions
    /\ ret = <<>>
    /\ prepErr = NilErr
    /\ cpIP = ""
    /\ handed = <<>>

\* the composer is not part of the run
DataIdle ==
    /\ dpc = "off"
    /\ opts = <<>>
    /\ ret = <<>>
    /\ prepErr = NilErr
    /\ cpIP = ""
    /\ handed = <<>>

\* runner.go:224-228: Validate keeps what prepareAWSImages returned
DataPrepare ==
    /\ dpc = "start"
    /\ prepErr' = prepareAWSImages(opts).err
    /\ ret' = prepareAWSImages(opts).ret
    /\ dpc' = IF prepareAWSImages(opts).err = NilErr THEN "prepared" ELSE "failed"
    /\ UNCHANGED <<opts, cpIP, handed, nonDataVars>>

\* a launch that hands the user-data over as prepared
LaunchUserDataRaw(img, ip) == img.UserData

\* utils/ec2.go:88-91: the user-data of the request is that of the image with
\* every "{{KUBEADM_CONTROL_PLANE_IP}}" replaced by the controlPlaneIP argument
LaunchUserData(img, ip) == ReplaceAll(img.UserData, LaunchToken, Len(ip))

\* up.go:126-140 with utils/ec2.go:30-108: the launch of the next image; the
\* user-data goes to RunInstances with the control plane's address in place
\* of its placeholder, and the first instance's address becomes that address
DataLaunch ==
    /\ dpc = "prepared"
    /\ Len(handed) < Len(ret)
    /\ \E describeOK \in BOOLEAN :
         IF describeOK
         THEN /\ handed' = Append(handed, LaunchUserData(ret[Len(handed) + 1], cpIP))
              /\ cpIP' = IF cpIP = "" THEN FirstPrivateIP ELSE cpIP
              /\ UNCHANGED dpc
         ELSE /\ dpc' = "aborted"
              /\ UNCHANGED <<handed, cpIP>>
    /\ UNCHANGED <<opts, ret, prepErr, nonDataVars>>

\* a composer that would also fill in the control plane's address, which the
\* runner learns between two calls
RunnerGetUserDataWithAddress(controlPlane) ==
    ReplaceAll(getUserData(IF controlPlane THEN opts.cpFile ELSE opts.wFile,
                           controlPlane, opts),
               LaunchToken, Len(cpIP))

\* runner.go:409, 417 with 444-586: a.getUserData for a role reads the
\* role's template and the runner's options and nothing else of the runner
RunnerGetUserData(controlPlane) ==
    getUserData(IF controlPlane THEN opts.cpFile ELSE opts.wFile, controlPlane, opts)

\* no further getUserData call has been made
ComposeIdle == composed = {}

\* runner.go:444-586: one more call of getUserData on the same runner, at
\* any moment before or after Validate, the inputs of the composition being
\* unchanged;
\* what is kept of the call is its role, whether the runner knew the control
\* plane's address by then, and the user-data returned
DataCompose ==
    /\ dpc \in {"start", "prepared"}
    /\ \E controlPlane \in BOOLEAN :
         LET call == [controlPlane |-> controlPlane,
                      addressKnown |-> cpIP # "",
                      UserData     |-> RunnerGetUserData(controlPlane)]
         IN  /\ call \notin composed
             /\ composed' = composed \cup {call}
    /\ UNCHANGED nonComposeVars

-----------------------------------------------------------------------------
(* utils.EnsureRole (utils/role.go:29-104), utils.EnsureInstanceProfile       *)
(* (utils/instanceprofile.go:92-144) and the caller of both,                  *)
(* AWSRunner.ensureInstanceProfileAndRole (runner.go:373-384)                 *)

\* the managed policies EnsureRole attaches to a role it created (role.go:84-92)
NumPolicies == 7

\* the number of ensureInstanceProfileAndRole calls explored on one account
MaxEnsureCalls == 2

\* an account with neither the role nor the instance profile
EmptyAccount ==
    [role |-> FALSE, policies |-> 0, profile |-> FALSE, attached |-> FALSE,
     elsewhere |-> FALSE]

\* the accounts a session may start on: the role under /kubetest2/ or not,
\* with the policies attached so far, the named instance profile or not, with
\* the role in it or not, and the role in some other instance profile or not
IamAccounts ==
    {a \in [role : BOOLEAN, policies : 0..NumPolicies, profile : BOOLEAN,
            attached : BOOLEAN, elsewhere : BOOLEAN] :
        /\ ~a.role => (a.policies = 0 /\ ~a.attached /\ ~a.elsewhere)
        /\ a.role => a.policies \in {0, NumPolicies}
        /\ a.attached => a.profile}

\* which calls of one ensureInstanceProfileAndRole the service answers:
\* attach is the number of AttachRolePolicy calls answered before one fails
IamAnswers ==
    [listRoles : BOOLEAN, createRole : BOOLEAN, attach : {0, NumPolicies - 1, NumPolicies},
     listProfiles : BOOLEAN, createProfile : BOOLEAN, listForRole : BOOLEAN,
     addRole : BOOLEAN]

\* a listing in which the role is never found
RoleListedNever(a) == FALSE

\* role.go:38-44: the role is among the roles ListRoles returned
RoleListed(a) == a.role

\* role.go:29-104
EnsureRole(a, f) ==
    IF ~f.listRoles
    THEN [err |-> Err("ListRoles", 0), acct |-> a, creates |-> 0]
    ELSE IF RoleListed(a)
    THEN [err |-> NilErr, acct |-> a, creates |-> 0]
    ELSE IF ~f.createRole \/ a.role
    THEN [err |-> Err("CreateRole", 0), acct |-> a, creates |-> 1]
    ELSE [err     |-> IF f.attach < NumPolicies THEN Err("AttachRolePolicy", 0)
                      ELSE NilErr,
          acct    |-> [a EXCEPT !.role = TRUE, !.policies = f.attach],
          creates |-> 1]

\* instanceprofile.go:102-108: the profile is among those ListInstanceProfiles returned
ProfileListed(a) == a.profile

\* instanceprofile.go:92-144; ListInstanceProfilesForRole fails for a role
\* that does not exist
EnsureInstanceProfile(a, f) ==
    IF ~f.listProfiles
    THEN [err |-> Err("ListInstanceProfiles", 0), acct |-> a, creates |-> 0]
    ELSE IF ProfileListed(a)
    THEN [err |-> NilErr, acct |-> a, creates |-> 0]
    ELSE IF ~f.createProfile
    THEN [err |-> Err("CreateInstanceProfile", 0), acct |-> a, creates |-> 1]
    ELSE LET created == [a EXCEPT !.profile = TRUE] IN
         IF ~f.listForRole \/ ~a.role
         THEN [err |-> Err("ListInstanceProfilesForRole", 0), acct |-> created,
               creates |-> 1]
         ELSE IF a.elsewhere \/ a.attached
         THEN [err |-> NilErr, acct |-> created, creates |-> 1]
         ELSE IF ~f.addRole
         THEN [err |-> Err("AddRoleToInstanceProfile", 0), acct |-> created,
               creates |-> 1]
         ELSE [err |-> NilErr, acct |-> [created EXCEPT !.attached = TRUE],
               creates |-> 1]

IamInit ==
    /\ iam \in IamAccounts
    /\ ensureLog = <<>>

\* IAM provisioning is not part of the run
IamIdle ==
    /\ iam = EmptyAccount
    /\ ensureLog = <<>>

\* runner.go:373-384, called by Validate (runner.go:220-222): EnsureRole, then
\* EnsureInstanceProfile on the account EnsureRole left
IamEnsure ==
    /\ Len(ensureLog) < MaxEnsureCalls
    /\ \E f \in IamAnswers :
         LET r == EnsureRole(iam, f)
             p == EnsureInstanceProfile(r.acct, f)
         IN  /\ iam' = p.acct
             /\ ensureLog' = Append(ensureLog,
                    [listRolesOK    |-> f.listRoles,
                     listProfilesOK |-> f.listProfiles,
                     before        |-> iam,
                     after         |-> p.acct,
                     roleErr       |-> r.err,
                     profileErr    |-> p.err,
                     createRole    |-> r.creates,
                     createProfile |-> p.creates,
                     err |-> ensureInstanceProfileAndRole(r.err = NilErr, p.err = NilErr)])
    /\ UNCHANGED nonIamVars

-----------------------------------------------------------------------------
(* The image checks of AWSRunner.Validate, runner.go:97-218 *)

StrAmiB == <<"a", "m", "i", "-", "0", "b">>

\* the --image / --worker-image values explored: none, the logical names, two
\* ids, a name that is neither
ImageOptions == {StrEmpty, StrUbuntu, StrAl2023, StrAl2, StrAmiA, StrAmiB, StrBad}

\* the ~target-build-arch values explored (deployer.go:79-84: "linux/amd64"
\* unless given); the last one has no "/"
TargetBuildArchs == {"linux/amd64", "linux/arm64", "arm64"}

\* runner.go:98: strings.Split(TargetBuildArch, "/")[1]; without a "/" the
\* index is out of range and Validate panics
SplitArch(target) ==
    CASE target = "linux/amd64" -> [ok |-> TRUE, arch |-> "amd64"]
      [] target = "linux/arm64" -> [ok |-> TRUE, arch |-> "arm64"]
      [] OTHER                  -> [ok |-> FALSE, arch |-> ""]

\* runner.go:100-127: the parameter asked for: the family and the architecture
\* part of its path
SSMPath(image, arch) ==
    CASE image = StrAl2023 ->
           [family |-> "ami-amazon-linux-latest/al2023-ami-kernel-default",
            arch   |-> IF arch = "amd64" THEN "x86_64" ELSE arch]
      [] image = StrAl2 ->
           [family |-> "ami-amazon-linux-latest/amzn2-ami-hvm",
            arch   |-> IF arch = "amd64" THEN "x86_64" ELSE arch]
      [] OTHER ->
           [family |-> "canonical/ubuntu/server/24.04/stable/20250305",
            arch   |-> arch]

\* runner.go:97: the option asks for a lookup
NeedsLookup(image) == image = StrEmpty \/ image \in operatingSystems

\* what GetSSMImage may answer (utils/ssm.go:25-33): an error, or a value
SSMAnswers ==
    {[ok |-> FALSE, value |-> StrEmpty]}
    \cup {[ok |-> TRUE, value |-> v] : v \in {StrAmiA, StrAmiB, StrBad, StrEmpty}}

ImageInit ==
    /\ imagePc = "start"
    /\ TargetBuildArch \in TargetBuildArchs
    /\ requested \in [image : ImageOptions, worker : ImageOptions]
    /\ Image = requested.image
    /\ WorkerImage = requested.worker
    /\ lookups = <<>>
    /\ imagesErr = NilErr

\* the image checks are not part of the run
ImageIdle ==
    /\ imagePc = "off"
    /\ TargetBuildArch = "linux/amd64"
    /\ requested = [image |-> StrEmpty, worker |-> StrEmpty]
    /\ Image = StrEmpty
    /\ WorkerImage = StrEmpty
    /\ lookups = <<>>
    /\ imagesErr = NilErr

\* the entry of `lookups` for one GetSSMImage call
Lookup(field, image, arch, answer) ==
    [field |-> field, path |-> SSMPath(image, arch), ok |-> answer.ok,
     value |-> answer.value]

\* runner.go:97-218: the control-plane image is resolved and checked, then
\* the worker image
ValidateImages ==
    /\ imagePc = "start"
    /\ \E answer \in SSMAnswers, wAnswer \in SSMAnswers :
         LET split == SplitArch(TargetBuildArch)
             r == ResolveImage(Image, answer.ok, answer.value)
             w == ResolveImage(WorkerImage, wAnswer.ok, wAnswer.value)
             l == IF NeedsLookup(Image)
                  THEN <<Lookup("image", Image, split.arch, answer)>> ELSE <<>>
             wl == IF NeedsLookup(WorkerImage)
                   THEN <<Lookup("worker", WorkerImage, split.arch, wAnswer)>> ELSE <<>>
         IN
         IF NeedsLookup(Image) /\ ~split.ok
         THEN /\ imagePc' = "panicked"
              /\ UNCHANGED <<Image, WorkerImage, lookups, imagesErr>>
         ELSE IF r.err # NilErr
         THEN /\ imagePc' = "returned"
              /\ imagesErr' = r.err
              /\ Image' = r.id
              /\ lookups' = l
              /\ UNCHANGED WorkerImage
         ELSE IF NeedsLookup(WorkerImage) /\ ~split.ok
         THEN /\ imagePc' = "panicked"
              /\ Image' = r.id
              /\ lookups' = l
              /\ UNCHANGED <<WorkerImage, imagesErr>>
         ELSE /\ imagePc' = "returned"
              /\ imagesErr' = w.err
              /\ Image' = r.id
              /\ WorkerImage' = w.id
              /\ lookups' = l \o wl
    /\ UNCHANGED <<TargetBuildArch, requested, nonImageVars>>

-----------------------------------------------------------------------------
(* utils.LaunchNewInstance, utils/ec2.go:30-108 *)

\* the number of LaunchNewInstance calls explored
MaxLaunches == 2

\* what DescribeImages may answer: an error, a result that lists no image
\* (an id that is not, or no longer, visible to the account), or the image
DescribeImagesAnswers == {"error", "empty", "found"}

\* what one call meets: the answers of DescribeImages, of the profile listing
\* of GetInstanceProfileArn and of RunInstances, and whether the image names
\* an instance profile
LaunchInputs ==
    [describe : DescribeImagesAnswers, hasProfile : BOOLEAN, arnOK : BOOLEAN,
     runOK : BOOLEAN]

\* utils/ec2.go:30-108. DescribeImages failing returns its error (32-35);
\* images.Images[0] (77) is read with no check of the length, so an empty
\* result panics; GetInstanceProfileArn failing returns its error (92-96);
\* then RunInstances is called once and its error returned (102-105)
LaunchNewInstance(in) ==
    IF in.describe = "error"
    THEN [returned |-> TRUE, err |-> Err("DescribeImages", 0), runInstances |-> 0]
    ELSE IF in.describe = "empty"
    THEN [returned |-> FALSE, err |-> NilErr, runInstances |-> 0]
    ELSE IF in.hasProfile /\ ~in.arnOK
    THEN [returned |-> TRUE, err |-> Err("GetInstanceProfileArn", 0), runInstances |-> 0]
    ELSE IF ~in.runOK
    THEN [returned |-> TRUE, err |-> Err("RunInstances", 0), runInstances |-> 1]
    ELSE [returned |-> TRUE, err |-> NilErr, runInstances |-> 1]

LaunchInit ==
    /\ launchLog = <<>>
    /\ launchPanicked = FALSE

\* runner.go:611-621: createAWSInstance calls LaunchNewInstance for an image
LaunchCall ==
    /\ ~launchPanicked
    /\ Len(launchLog) < MaxLaunches
    /\ \E in \in LaunchInputs :
         /\ launchLog' = Append(launchLog, [in |-> in, out |-> LaunchNewInstance(in)])
         /\ launchPanicked' = ~LaunchNewInstance(in).returned
    /\ UNCHANGED nonLaunchVars

-----------------------------------------------------------------------------
(* downloadKubeConfig, up.go:197-220. A line is the sequence of the pieces   *)
(* of text it is made of; a piece holds no line break.                       *)

\* the number of lines of the kubeconfigs explored
MaxLines == 3

\* the two literals of the expression `server: https://(.*):6443` (up.go:212)
ServerPrefix == "server: https://"

PortSuffix == ":6443"

\* the lines explored: the cluster's server line, plain and indented and with
\* an address for host, and lines that hold only a part of the expression
KubeLines ==
    { <<ServerPrefix, "internal-host", PortSuffix>>,
      <<"    ", ServerPrefix, "internal-host", PortSuffix>>,
      <<"    ", ServerPrefix, "10.0.0.12", PortSuffix>>,
      <<"    ", ServerPrefix, "internal-host", ":443">>,
      <<"    ", "proxy-url: http://", "internal-host", PortSuffix>>,
      <<"    ", "certificate-authority-data: LS0tLS1CRUdJTg==">>,
      <<"- name: kubernetes">>,
      <<>> }

\* the publicIp values explored
PublicIps == {"203.0.113.5", "198.51.100.7"}

\* the positions of the prefix in a line
PrefixAt(line) == {i \in 1..Len(line) : line[i] = ServerPrefix}

\* the positions of the port suffix after position i
SuffixAfter(line, i) == {j \in (i + 1)..Len(line) : line[j] = PortSuffix}

\* where the expression matches a line: from the leftmost prefix that has a
\* port suffix after it; `.` matches no line break, so a match lies in one line
MatchStarts(line) == {i \in PrefixAt(line) : SuffixAfter(line, i) # {}}

Min(S) == CHOOSE x \in S : \A y \in S : x <= y

Max(S) == CHOOSE x \in S : \A y \in S : x >= y

\* a rewriting that replaces the whole line holding a match
ReplaceWholeLine(line, ip) ==
    IF MatchStarts(line) = {} THEN line ELSE <<ServerPrefix, ip, PortSuffix>>

\* up.go:212-213: re.ReplaceAllString on one line: `(.*)` is greedy, so the
\* match runs from the leftmost prefix to the last port suffix of the line and
\* nothing is left to match after it; what surrounds the match is kept
ReplaceAllString(line, ip) ==
    IF MatchStarts(line) = {} THEN line
    ELSE LET i == Min(MatchStarts(line))
             j == Max(SuffixAfter(line, i))
         IN  SubSeq(line, 1, i - 1) \o <<ServerPrefix, ip, PortSuffix>>
             \o SubSeq(line, j + 1, Len(line))

\* kubeadm writes admin.conf for one cluster: one line holds its server URL
OneServerLine(lines) ==
    Cardinality({k \in 1..Len(lines) : MatchStarts(lines[k]) # {}}) = 1

KubeInit ==
    /\ kubePc = "start"
    /\ adminConf \in {ls \in UNION {[1..n -> KubeLines] : n \in 1..MaxLines} :
                          OneServerLine(ls)}
    /\ publicIp \in PublicIps
    /\ kubeOut = <<>>

\* downloadKubeConfig is not part of the run
KubeIdle ==
    /\ kubePc = "off"
    /\ adminConf = <<>>
    /\ publicIp = ""
    /\ kubeOut = <<>>

\* up.go:197-220: the file is read over ssh, the temporary file is created
\* and the rewritten text written to it; a failure of any of these is a
\* klog.Fatalf
DownloadKubeConfig ==
    /\ kubePc = "start"
    /\ \E ok \in BOOLEAN :
         IF ok
         THEN /\ kubePc' = "written"
              /\ kubeOut' = [k \in 1..Len(adminConf) |->
                                ReplaceAllString(adminConf[k], publicIp)]
         ELSE /\ kubePc' = "exited"
              /\ UNCHANGED kubeOut
    /\ UNCHANGED <<adminConf, publicIp, nonKubeVars>>

-----------------------------------------------------------------------------
(* One deployer across its calls: Build (build.go:34-41), Up (up.go:107-130) *)
(* with NewAWSRunner (up.go:187-195), IsUp (up.go:52-87) and Down            *)
(* (deployer.go:139-153), for what they do to d.runner and its instances     *)

\* the number of deployer calls explored
MaxLifeCalls == 4

\* the number of instances one Up may launch and track
MaxLifeLaunch == 2

\* the ids the terminate calls of the logged Downs were issued for
TerminateAttempted(log) ==
    UNION {{log[k].calls[j] : j \in 1..Len(log[k].calls)} : k \in 1..Len(log)}

\* the ids EC2 has given out so far: those still running and those terminated
IdsGiven == ec2Running \cup TerminateAttempted(terminateLog)

\* the id RunInstances gives the k-th instance launched from now on
FreshId(k) == Cardinality(IdsGiven) + k

\* up.go:187-195: NewAWSRunner stores a new runner, with no instance, in
\* d.runner
NewAWSRunner == <<>>

LifeInit ==
    /\ runnerSet = FALSE
    /\ runnerInstances = <<>>
    /\ ec2Running = {}
    /\ terminateLog = <<>>
    /\ lifeCalls = 0
    /\ lifePanicked = FALSE

LifeCanCall == lifeCalls < MaxLifeCalls /\ ~lifePanicked

\* build.go:34-41: Build makes a new runner for its S3 client
Build ==
    /\ LifeCanCall
    /\ lifeCalls' = lifeCalls + 1
    /\ runnerSet' = TRUE
    /\ runnerInstances' = NewAWSRunner
    /\ UNCHANGED <<ec2Running, terminateLog, lifePanicked, nonLifeVars>>

\* up.go:107-130: Up returns before NewAWSRunner when kubectl is not found;
\* otherwise it makes a new runner, and when Validate passes it launches the
\* images and appends each instance createAWSInstance returned
LifeUp ==
    /\ LifeCanCall
    /\ lifeCalls' = lifeCalls + 1
    /\ \E kubectlFound \in BOOLEAN, validateOK \in BOOLEAN, n \in 0..MaxLifeLaunch :
         IF ~kubectlFound
         THEN UNCHANGED <<runnerSet, runnerInstances, ec2Running>>
         ELSE /\ runnerSet' = TRUE
              /\ IF validateOK
                 THEN /\ runnerInstances' = NewAWSRunner \o [k \in 1..n |-> FreshId(k)]
                      /\ ec2Running' = ec2Running \cup {FreshId(k) : k \in 1..n}
                 ELSE /\ runnerInstances' = NewAWSRunner
                      /\ UNCHANGED ec2Running
    /\ UNCHANGED <<terminateLog, lifePanicked, nonLifeVars>>

\* up.go:52-87: IsUp reads d.runner.instances and changes nothing of it
LifeIsUp ==
    /\ LifeCanCall
    /\ lifeCalls' = lifeCalls + 1
    /\ lifePanicked' = ~runnerSet
    /\ UNCHANGED <<runnerSet, runnerInstances, ec2Running, terminateLog, nonLifeVars>>

\* deployer.go:139-153: Down issues a terminate call for each tracked
\* instance in turn and returns at the first that fails; the loop reads
\* d.runner.instances and removes nothing from it
LifeDown ==
    /\ LifeCanCall
    /\ lifeCalls' = lifeCalls + 1
    /\ IF ~runnerSet
       THEN /\ lifePanicked' = TRUE
            /\ UNCHANGED <<runnerInstances, ec2Running, terminateLog>>
       ELSE /\ \E failing \in {{}} \cup {{runnerInstances[k]} : k \in 1..Len(runnerInstances)} :
                 LET calls == TerminateCalls(runnerInstances, failing)
                 IN  /\ terminateLog' = Append(terminateLog,
                                               [calls |-> calls,
                                                err   |-> DownResult(runnerInstances, failing)])
                     /\ ec2Running' = ec2Running
                                       \ ({calls[k] : k \in 1..Len(calls)} \ failing)
            /\ UNCHANGED <<runnerInstances, lifePanicked>>
    /\ UNCHANGED <<runnerSet, nonLifeVars>>

-----------------------------------------------------------------------------
(* utils.ValidateS3Bucket, utils/s3.go:32-85, on the keys of a bucket, and   *)
(* what Up does with its result (runner.go:401-407, 224-228, up.go:117-130)  *)

StrV == <<"v">>

StrV1 == <<"v", "1">>

StrV1a == <<"v", "1", "a">>

StrV3 == <<"v", "3">>

\* the requested versions explored
S3Versions == {StrV1, StrV1a, StrV3}

\* the object keys explored: builds staged under v1, v1a and v2, an object
\* under the directory v, and one under a directory that is no version
S3KeyUniverse ==
    {<<"v", "1", "/", "f">>, <<"v", "1", "a", "/", "f">>, <<"v", "2", "/", "f">>,
     <<"v", "/", "f">>, <<"w", "/", "f">>}

\* strings.Split(key, "/")[0]
FirstSegment(key) ==
    IF \E k \in 1..Len(key) : key[k] = "/"
    THEN SubSeq(key, 1, Min({k \in 1..Len(key) : key[k] = "/"}) - 1)
    ELSE key

\* the Contents of ListObjectsV2 for a prefix
ListObjectsV2(keys, prefix) == {key \in keys : HasPrefix(key, prefix)}

\* a validation that asks for the requested version only
ValidateS3BucketExact(stageLocation, version, keys, listOK, listVOK) ==
    IF IsURL(stageLocation) THEN NilErr
    ELSE IF ~listOK THEN Err("version", 0)
    ELSE IF ListObjectsV2(keys, version) # {} THEN NilErr
    ELSE IF ~listVOK THEN Err("list", 0)
    ELSE Err("version", 0)

\* utils/s3.go:32-85: a URL is not checked; a plain bucket must list an
\* object with the version for prefix, or else, among the objects with the
\* prefix "v", one whose first path segment is a proper prefix of the version
ValidateS3BucketKeys(stageLocation, version, keys, listOK, listVOK) ==
    IF IsURL(stageLocation) THEN NilErr
    ELSE IF ~listOK THEN Err("version", 0)
    ELSE IF ListObjectsV2(keys, version) # {} THEN NilErr
    ELSE IF ~listVOK THEN Err("list", 0)
    ELSE IF \E key \in ListObjectsV2(keys, StrV) :
               /\ Len(version) > Len(FirstSegment(key))
               /\ HasPrefix(version, FirstSegment(key))
         THEN NilErr
    ELSE Err("version", 0)

S3Init ==
    /\ s3Pc = "start"
    /\ s3Stage \in {"bucket", "s3://bucket"}
    /\ s3Version \in S3Versions
    /\ s3Keys \in SUBSET S3KeyUniverse
    /\ s3ListOK \in BOOLEAN
    /\ s3ListVOK \in BOOLEAN
    /\ s3Err = NilErr
    /\ s3Launched = FALSE

\* the bucket check is not part of the run
S3Idle ==
    /\ s3Pc = "off"
    /\ s3Stage = ""
    /\ s3Version = <<>>
    /\ s3Keys = {}
    /\ s3ListOK = FALSE
    /\ s3ListVOK = FALSE
    /\ s3Err = NilErr
    /\ s3Launched = FALSE

\* runner.go:401-407: prepareAWSImages asks ValidateS3Bucket and returns its
\* error, which Validate (runner.go:224-228) and Up (up.go:117-120) return
S3Validate ==
    /\ s3Pc = "start"
    /\ s3Pc' = "validated"
    /\ s3Err' = ValidateS3BucketKeys(s3Stage, s3Version, s3Keys, s3ListOK, s3ListVOK)
    /\ UNCHANGED <<s3Stage, s3Version, s3Keys, s3ListOK, s3ListVOK, s3Launched,
                   nonS3Vars>>

\* up.go:117-130: the launch loop is reached only when Validate returned nil
S3Launch ==
    /\ s3Pc = "validated"
    /\ s3Err = NilErr
    /\ s3Pc' = "launched"
    /\ s3Launched' = TRUE
    /\ UNCHANGED <<s3Stage, s3Version, s3Keys, s3ListOK, s3ListVOK, s3Err, nonS3Vars>>

-----------------------------------------------------------------------------
(* deployer.waitForKubectlNodes, deployer.go:174-214, and Up around it,      *)
(* up.go:171-172                                                             *)

\* the cap of the node-count loop (deployer.go:192)
MaxNodeChecks == 30

\* no kubectl run yet
NoRun == [err |-> FALSE, lines |-> 0 - 1]

\* what one `kubectl get nodes -o=name` may give: an error, or its lines, up
\* to one more than the largest fleet
KubectlRuns ==
    {[err |-> TRUE, lines |-> 0]}
    \cup {[err |-> FALSE, lines |-> n] : n \in 0..(MaxInstances + 1)}

\* a loop body that never takes the count for final
LoopStepNoBreak(run, tracked) ==
    IF run.err THEN "return" ELSE "sleep"

\* deployer.go:193-212: what the loop body does after a kubectl run: it
\* returns on an error, breaks when as many lines as tracked instances were
\* printed, and sleeps 15 s before the next turn otherwise
LoopStep(run, tracked) ==
    IF run.err THEN "return"
    ELSE IF run.lines = tracked THEN "break"
    ELSE "sleep"

NodesInit ==
    /\ nwPc = "start"
    /\ nwKubectl \in BOOLEAN
    /\ nwKubeconfig \in BOOLEAN
    /\ nwTracked \in 1..MaxInstances
    /\ nwChecks = 0
    /\ nwLast = NoRun
    /\ nwEnd = "none"
    /\ nwUpErr = NilErr

\* the node-count wait is not part of the run
NodesIdle ==
    /\ nwPc = "off"
    /\ nwKubectl = FALSE
    /\ nwKubeconfig = FALSE
    /\ nwTracked = 0
    /\ nwChecks = 0
    /\ nwLast = NoRun
    /\ nwEnd = "none"
    /\ nwUpErr = NilErr

\* deployer.go:175-182: without kubectl or without a kubeconfig there is
\* nothing to wait with
NodesEnter ==
    /\ nwPc = "start"
    /\ IF ~nwKubectl THEN nwPc' = "returned" /\ nwEnd' = "nokubectl"
       ELSE IF ~nwKubeconfig THEN nwPc' = "returned" /\ nwEnd' = "nokubeconfig"
       ELSE nwPc' = "loop" /\ nwEnd' = "none"
    /\ UNCHANGED <<nwKubectl, nwKubeconfig, nwTracked, nwChecks, nwLast, nwUpErr,
                   nonNodesVars>>

\* deployer.go:192-213: one turn of the loop, and the loop's test after it
NodesCheck ==
    /\ nwPc = "loop"
    /\ nwChecks < MaxNodeChecks
    /\ \E run \in KubectlRuns :
         /\ nwLast' = run
         /\ nwChecks' = nwChecks + 1
         /\ CASE LoopStep(run, nwTracked) = "return" ->
                   nwPc' = "returned" /\ nwEnd' = "error"
              [] LoopStep(run, nwTracked) = "break" ->
                   nwPc' = "returned" /\ nwEnd' = "match"
              [] OTHER ->
                   IF nwChecks + 1 < MaxNodeChecks
                   THEN nwPc' = "loop" /\ nwEnd' = "none"
                   ELSE nwPc' = "returned" /\ nwEnd' = "cap"
    /\ UNCHANGED <<nwKubectl, nwKubeconfig, nwTracked, nwUpErr, nonNodesVars>>

\* up.go:171-172: waitForKubectlNodes returns no value; Up goes on with
\* waitForKubectlNodesToBeReady
NodesUpGoesOn ==
    /\ nwPc = "returned"
    /\ nwPc' = "next"
    /\ nwUpErr' = NilErr
    /\ UNCHANGED <<nwKubectl, nwKubeconfig, nwTracked, nwChecks, nwLast, nwEnd,
                   nonNodesVars>>

-----------------------------------------------------------------------------
(* The poll tasks of one Up running side by side, up.go:143-156: each task
   runs isAWSInstanceRunning (runner.go:231-349) on its own instance; what the
   tasks share is the runner (controlPlaneIP), the deployer (KubeconfigPath)
   and the process *)

\* the instances polled side by side: #1 is the first launched
FleetSize == 2

FleetIds == 1..FleetSize

\* up.go:138-140: controlPlaneIP was seeded from the first tracked instance
\* before the first task was started
FleetControlPlaneIP == PrivateIP(1)

\* a role test that also looks at the deployer's kubeconfig path
FleetIsControlPlaneOrNoKubeconfig(i) ==
    FleetControlPlaneIP = PrivateIP(i) \/ fleetKubeconfig = ""

\* runner.go:315, 338: a.controlPlaneIP == *testInstance.instance.PrivateIpAddress
FleetIsControlPlane(i) == FleetControlPlaneIP = PrivateIP(i)

FleetInit ==
    /\ fleetPc = [i \in FleetIds |-> "wait"]
    /\ fleetIter = [i \in FleetIds |-> 0]
    /\ fleetOwnPassed = [i \in FleetIds |-> FALSE]
    /\ fleetRet = [i \in FleetIds |-> Err("unset", 0)]
    /\ fleetKubeconfig \in KubeconfigFlags
    /\ fleetExited = FALSE

\* runner.go:236-242: the 5 minute waiter of the task of instance i
FleetWaitRunning(i) ==
    /\ ~fleetExited
    /\ fleetPc[i] = "wait"
    /\ \E started \in BOOLEAN :
         IF started
         THEN /\ fleetPc' = [fleetPc EXCEPT ![i] = "loop"]
              /\ UNCHANGED fleetRet
         ELSE /\ fleetPc' = [fleetPc EXCEPT ![i] = "returned"]
              /\ fleetRet' = [fleetRet EXCEPT ![i] = Err("didnotstart", i)]
    /\ UNCHANGED <<fleetIter, fleetOwnPassed, fleetKubeconfig, fleetExited, nonFleetVars>>

\* runner.go:243-333: one iteration of the loop of instance i. ownOK: the gates
\* every instance has (describe to cloud-init) passed; kubectlOK: the two kubectl
\* gates, which are run on the control plane only, passed. The counter i is a
\* variable of the loop: it is gone (0 here) once the loop is left
FleetIterate(i) ==
    /\ ~fleetExited
    /\ fleetPc[i] = "loop"
    /\ \E ownOK \in BOOLEAN, kubectlOK \in BOOLEAN :
         LET running == ownOK /\ (FleetIsControlPlane(i) => kubectlOK)
         IN  /\ fleetOwnPassed' = [fleetOwnPassed EXCEPT ![i] = @ \/ ownOK]
             /\ IF running
                THEN /\ fleetPc' = [fleetPc EXCEPT ![i] = "passed"]
                     /\ fleetIter' = [fleetIter EXCEPT ![i] = 0]
                ELSE IF fleetIter[i] + 1 < MaxPollIterations
                THEN /\ fleetPc' = [fleetPc EXCEPT ![i] = "loop"]
                     /\ fleetIter' = [fleetIter EXCEPT ![i] = @ + 1]
                ELSE /\ fleetPc' = [fleetPc EXCEPT ![i] = "failed"]
                     /\ fleetIter' = [fleetIter EXCEPT ![i] = 0]
    /\ UNCHANGED <<fleetRet, fleetKubeconfig, fleetExited, nonFleetVars>>

\* runner.go:335-349: the return of the poll of instance i; on the control plane
\* a poll that passed downloads the kubeconfig when the deployer has none, and
\* downloadKubeConfig ends the process when it fails (up.go:203-218)
FleetReturn(i) ==
    /\ ~fleetExited
    /\ fleetPc[i] \in {"passed", "failed"}
    /\ IF fleetPc[i] = "failed"
       THEN /\ fleetRet' = [fleetRet EXCEPT ![i] = Err("notrunning", i)]
            /\ fleetPc' = [fleetPc EXCEPT ![i] = "returned"]
            /\ UNCHANGED <<fleetKubeconfig, fleetExited>>
       ELSE IF FleetIsControlPlane(i) /\ fleetKubeconfig = ""
       THEN \E downloaded \in BOOLEAN :
              IF downloaded
              THEN /\ fleetKubeconfig' = DownloadedPath
                   /\ fleetRet' = [fleetRet EXCEPT ![i] = NilErr]
                   /\ fleetPc' = [fleetPc EXCEPT ![i] = "returned"]
                   /\ UNCHANGED fleetExited
              ELSE /\ fleetExited' = TRUE
                   /\ UNCHANGED <<fleetPc, fleetRet, fleetKubeconfig>>
       ELSE /\ fleetRet' = [fleetRet EXCEPT ![i] = NilErr]
            /\ fleetPc' = [fleetPc EXCEPT ![i] = "returned"]
            /\ UNCHANGED <<fleetKubeconfig, fleetExited>>
    /\ UNCHANGED <<fleetIter, fleetOwnPassed, nonFleetVars>>

-----------------------------------------------------------------------------
(* The node-e2e runner, test/e2e_node/remote/aws/aws_runner.go: StartTests
   (103-113) starts one goroutine per prepared image; each runs testAWSImage
   (229-264) and sends what it returns on the caller's results channel *)

\* the largest number of prepared images explored
MaxE2eImages == 2

E2eTaskIds == 1..MaxE2eImages

\* no TestResult yet
NoResult == [err |-> "unset", host |-> 0, image |-> 0]

\* a closure that reads the loop's variable at the time it runs: the loop is
\* over by then and every task holds the last image
ImageOfLoopVariable(i, n) == n

\* aws_runner.go:105: img := a.internalAWSImages[i] is declared inside the loop
\* body, so the closure of turn i holds image i
ImageOfClosure(i, n) == i

E2eIdle ==
    /\ e2ePc = "idle"
    /\ e2eCfg = [DeleteInstances |-> FALSE, reuseInstances |-> FALSE]
    /\ e2eImages = 0
    /\ e2eNumTests = 0
    /\ e2eTask = [i \in E2eTaskIds |-> "none"]
    /\ e2eImageOf = [i \in E2eTaskIds |-> 0]
    /\ e2eInstance = [i \in E2eTaskIds |-> "none"]
    /\ e2eTerminated = {}
    /\ e2eResult = [i \in E2eTaskIds |-> NoResult]
    /\ e2eReceived = <<>>
    /\ e2eExited = FALSE

\* a runner whose Validate has prepared its images (aws_runner.go:79-101)
E2eInit ==
    /\ e2ePc = "idle"
    /\ e2eCfg \in [DeleteInstances : BOOLEAN, reuseInstances : BOOLEAN]
    /\ e2eImages \in 0..MaxE2eImages
    /\ e2eNumTests = 0
    /\ e2eTask = [i \in E2eTaskIds |-> "none"]
    /\ e2eImageOf = [i \in E2eTaskIds |-> 0]
    /\ e2eInstance = [i \in E2eTaskIds |-> "none"]
    /\ e2eTerminated = {}
    /\ e2eResult = [i \in E2eTaskIds |-> NoResult]
    /\ e2eReceived = <<>>
    /\ e2eExited = FALSE

\* aws_runner.go:103-113
StartTests ==
    /\ e2ePc = "idle"
    /\ ~e2eExited
    /\ e2ePc' = "returned"
    /\ e2eNumTests' = e2eImages
    /\ e2eTask' = [i \in E2eTaskIds |-> IF i <= e2eImages THEN "started" ELSE "none"]
    /\ e2eImageOf' = [i \in E2eTaskIds |->
                        IF i <= e2eImages THEN ImageOfClosure(i, e2eImages) ELSE 0]
    /\ UNCHANGED <<e2eCfg, e2eImages, e2eInstance, e2eTerminated, e2eResult,
                   e2eReceived, e2eExited, nonE2eVars>>

\* aws_runner.go:230-235: the TestResult of a getAWSInstance that returned an error
CreateFailed(i) == [err |-> "create", host |-> 0, image |-> e2eImageOf[i]]

\* aws_runner.go:276-307 and 453-518: getAWSInstance up to the instance it
\* works on.
\*   describeErr  DescribeInstances failed
\*   reused       --reuse-instances and a running instance of that image
\*   launchErr    DescribeImages or RunInstances failed: no instance
\*   panic        DescribeImages listed no image: images.Images[0] panics
\*   launched     RunInstances returned a new instance
E2eGetInstance(i) ==
    /\ ~e2eExited
    /\ e2eTask[i] = "started"
    /\ \E outcome \in {"describeErr", "reused", "launchErr", "panic", "launched"} :
         /\ outcome = "reused" => e2eCfg.reuseInstances
         /\ CASE outcome \in {"describeErr", "launchErr"} ->
                   /\ e2eResult' = [e2eResult EXCEPT ![i] = CreateFailed(i)]
                   /\ e2eTask' = [e2eTask EXCEPT ![i] = "sending"]
                   /\ UNCHANGED <<e2eInstance, e2eExited>>
              [] outcome = "panic" ->
                   /\ e2eExited' = TRUE
                   /\ UNCHANGED <<e2eResult, e2eTask, e2eInstance>>
              [] OTHER ->
                   /\ e2eInstance' = [e2eInstance EXCEPT ![i] = outcome]
                   /\ e2eTask' = [e2eTask EXCEPT ![i] = "waiting"]
                   /\ UNCHANGED <<e2eResult, e2eExited>>
    /\ UNCHANGED <<e2ePc, e2eCfg, e2eImages, e2eNumTests, e2eImageOf, e2eTerminated,
                   e2eReceived, nonE2eVars>>

\* aws_runner.go:309-394: the rest of getAWSInstance, and aws_runner.go:230-235.
\*   nostart   the 5 minute waiter failed: (testInstance, error)
\*   notready  no iteration of the 50 passed every gate: (nil, error)
\*   panic     a describe answered without a reservation or without a public
\*             address (aws_runner.go:337, 359)
\*   ready     an iteration passed every gate: (testInstance, nil)
E2eWaitReady(i) ==
    /\ ~e2eExited
    /\ e2eTask[i] = "waiting"
    /\ \E outcome \in {"nostart", "notready", "panic", "ready"} :
         CASE outcome \in {"nostart", "notready"} ->
                /\ e2eResult' = [e2eResult EXCEPT ![i] = CreateFailed(i)]
                /\ e2eTask' = [e2eTask EXCEPT ![i] = "sending"]
                /\ UNCHANGED e2eExited
           [] outcome = "panic" ->
                /\ e2eExited' = TRUE
                /\ UNCHANGED <<e2eResult, e2eTask>>
           [] OTHER ->
                /\ e2eTask' = [e2eTask EXCEPT ![i] = "testing"]
                /\ UNCHANGED <<e2eResult, e2eExited>>
    /\ UNCHANGED <<e2ePc, e2eCfg, e2eImages, e2eNumTests, e2eImageOf, e2eInstance,
                   e2eTerminated, e2eReceived, nonE2eVars>>

\* aws_runner.go:236-263: RunRemote, the TestResult, and the deferred
\* deleteAWSInstance (266-274), which runs before testAWSImage hands its result
\* to the send and only logs a failed TerminateInstances
E2eRunRemote(i) ==
    /\ ~e2eExited
    /\ e2eTask[i] = "testing"
    /\ \E err \in {"nil", "test"} :
         e2eResult' = [e2eResult EXCEPT ![i] =
                          [err |-> err, host |-> i, image |-> e2eImageOf[i]]]
    /\ e2eTerminated' = IF e2eCfg.DeleteInstances THEN e2eTerminated \cup {i}
                        ELSE e2eTerminated
    /\ e2eTask' = [e2eTask EXCEPT ![i] = "sending"]
    /\ UNCHANGED <<e2ePc, e2eCfg, e2eImages, e2eNumTests, e2eImageOf, e2eInstance,
                   e2eReceived, e2eExited, nonE2eVars>>

\* aws_runner.go:109: results <- ..., against a caller that receives numTests
\* results from the channel
E2eSend(i) ==
    /\ ~e2eExited
    /\ e2eTask[i] = "sending"
    /\ Len(e2eReceived) < e2eNumTests
    /\ e2eReceived' = Append(e2eReceived, [task |-> i, result |-> e2eResult[i]])
    /\ e2eTask' = [e2eTask EXCEPT ![i] = "done"]
    /\ UNCHANGED <<e2ePc, e2eCfg, e2eImages, e2eNumTests, e2eImageOf, e2eInstance,
                   e2eTerminated, e2eResult, e2eExited, nonE2eVars>>

-----------------------------------------------------------------------------
(* The specifications *)

Init == OrchInit /\ PollIdle /\ DataIdle /\ IamIdle /\ ImageIdle /\ LaunchInit /\ KubeIdle /\ ComposeIdle /\ LifeInit /\ S3Idle /\ NodesIdle /\ FleetInit /\ E2eIdle

Next ==
    \/ UpValidate
    \/ UpLaunch
    \/ \E i \in InstanceIds : TaskPollOk(i)
    \/ \E i \in InstanceIds : TaskPollFail(i)
    \/ \E i \in InstanceIds : TaskDump(i)
    \/ \E i \in InstanceIds : TaskSendPanic(i)
    \/ UpSelectErr
    \/ WgWait
    \/ UpSelectDone
    \/ UpPostInstall
    \/ IsUp
    \/ Down

Spec == Init /\ [][Next]_vars

InitPoll == OrchInit /\ PollInit /\ DataIdle /\ IamIdle /\ ImageIdle /\ LaunchInit /\ KubeIdle /\ ComposeIdle /\ LifeInit /\ S3Idle /\ NodesIdle /\ FleetInit /\ E2eIdle

NextPoll ==
    \/ PollWaitRunning
    \/ GateDescribe
    \/ GateNetif
    \/ GateSSHKey
    \/ GateContainerd
    \/ GateCloudInit
    \/ GateKubectlVersion
    \/ GateGetNodes
    \/ PollReturn
    \/ WaitStart
    \/ WaitPoll
    \/ UpAfterWait

SpecPoll == InitPoll /\ [][NextPoll]_vars

InitData == OrchInit /\ PollIdle /\ DataInit /\ IamIdle /\ ImageIdle /\ LaunchInit /\ KubeIdle /\ ComposeIdle /\ LifeInit /\ S3Idle /\ NodesIdle /\ FleetInit /\ E2eIdle

NextData ==
    \/ DataPrepare
    \/ DataLaunch
    \/ DataCompose

SpecData == InitData /\ [][NextData]_vars

InitIam == OrchInit /\ PollIdle /\ DataIdle /\ IamInit /\ ImageIdle /\ LaunchInit /\ KubeIdle /\ ComposeIdle /\ LifeInit /\ S3Idle /\ NodesIdle /\ FleetInit /\ E2eIdle

NextIam == IamEnsure

SpecIam == InitIam /\ [][NextIam]_vars

InitImage == OrchInit /\ PollIdle /\ DataIdle /\ IamIdle /\ ImageInit /\ LaunchInit /\ KubeIdle /\ ComposeIdle /\ LifeInit /\ S3Idle /\ NodesIdle /\ FleetInit /\ E2eIdle

NextImage == ValidateImages

SpecImage == InitImage /\ [][NextImage]_vars

InitLaunch == OrchInit /\ PollIdle /\ DataIdle /\ IamIdle /\ ImageIdle /\ LaunchInit /\ KubeIdle /\ ComposeIdle /\ LifeInit /\ S3Idle /\ NodesIdle /\ FleetInit /\ E2eIdle

NextLaunch == LaunchCall

SpecLaunch == InitLaunch /\ [][NextLaunch]_vars

InitKube == OrchInit /\ PollIdle /\ DataIdle /\ IamIdle /\ ImageIdle /\ LaunchInit /\ KubeInit /\ ComposeIdle /\ LifeInit /\ S3Idle /\ NodesIdle /\ FleetInit /\ E2eIdle

NextKube == DownloadKubeConfig

SpecKube == InitKube /\ [][NextKube]_vars

InitLife == OrchInit /\ PollIdle /\ DataIdle /\ IamIdle /\ ImageIdle /\ LaunchInit /\ KubeIdle /\ ComposeIdle /\ LifeInit /\ S3Idle /\ NodesIdle /\ FleetInit /\ E2eIdle

NextLife ==
    \/ Build
    \/ LifeUp
    \/ LifeIsUp
    \/ LifeDown

SpecLife == InitLife /\ [][NextLife]_vars

InitS3 == OrchInit /\ PollIdle /\ DataIdle /\ IamIdle /\ ImageIdle /\ LaunchInit /\ KubeIdle /\ ComposeIdle /\ LifeInit /\ S3Init /\ NodesIdle /\ FleetInit /\ E2eIdle

NextS3 ==
    \/ S3Validate
    \/ S3Launch

SpecS3 == InitS3 /\ [][NextS3]_vars

InitNodes == OrchInit /\ PollIdle /\ DataIdle /\ IamIdle /\ ImageIdle /\ LaunchInit /\ KubeIdle /\ ComposeIdle /\ LifeInit /\ S3Idle /\ NodesInit /\ FleetInit /\ E2eIdle

NextNodes ==
    \/ NodesEnter
    \/ NodesCheck
    \/ NodesUpGoesOn

SpecNodes == InitNodes /\ [][NextNodes]_vars

InitFleet == OrchInit /\ PollIdle /\ DataIdle /\ IamIdle /\ ImageIdle /\ LaunchInit /\ KubeIdle /\ ComposeIdle /\ LifeInit /\ S3Idle /\ NodesIdle /\ FleetInit /\ E2eIdle

NextFleet ==
    \/ \E i \in FleetIds : FleetWaitRunning(i)
    \/ \E i \in FleetIds : FleetIterate(i)
    \/ \E i \in FleetIds : FleetReturn(i)

SpecFleet == InitFleet /\ [][NextFleet]_vars

InitE2e == OrchInit /\ PollIdle /\ DataIdle /\ IamIdle /\ ImageIdle /\ LaunchInit /\ KubeIdle /\ ComposeIdle /\ LifeInit /\ S3Idle /\ NodesIdle /\ FleetInit /\ E2eInit

NextE2e ==
    \/ StartTests
    \/ \E i \in E2eTaskIds : E2eGetInstance(i)
    \/ \E i \in E2eTaskIds : E2eWaitReady(i)
    \/ \E i \in E2eTaskIds : E2eRunRemote(i)
    \/ \E i \in E2eTaskIds : E2eSend(i)

SpecE2e == InitE2e /\ [][NextE2e]_vars

-----------------------------------------------------------------------------
(* Claims on the orchestrator (Spec) *)

\* C1: Down issues a terminate call for every tracked instance even when the
\* call for one of them fails, and then returns an error naming a failed
\* instance.  The code returns at the first failing call (deployer.go:147-149).
C1_DownAttemptsEveryInstance ==
    down = "done" =>
        /\ {downAttempted[k] : k \in 1..Len(downAttempted)}
               = {instances[k] : k \in 1..Len(instances)}
        /\ termFailing # {} => (downErr.kind = "terminate" /\ downErr.id \in termFailing)

\* C2: every poll task terminates: its send on fatalErrors never panics and
\* never stays blocked, also after another task's error was received (and the
\* channel closed) or after Up returned on a failed launch.
C2_NoTaskPanicsOrLeaks ==
    \A i \in InstanceIds :
        /\ task[i] # "panicked"
        /\ ~(task[i] = "sending" /\ pc = "done" /\ upErr.kind = "launch")

\* C3 as stated: once a poll task is at its send of a fatal error, Up makes no
\* further launch step before it returns.
C3_NoLaunchStepAfterFatal ==
    [][(\E i \in InstanceIds : task[i] = "sending")
          => (li' = li /\ runCalls' = runCalls)]_vars

\* C3, amended: once the launch loop is over and Up is at its select, a poll
\* task at its send is received at once, whatever the other poll tasks are
\* doing; the error Up returns is that of a task that failed.
C3_SelectReturnsWithoutWaiting ==
    /\ (pc = "select" /\ Alive /\ fatalErrors = "open"
            /\ \E i \in InstanceIds : task[i] = "sending")
          => ENABLED UpSelectErr
    /\ (pc = "done" /\ upErr.kind = "poll" /\ Alive) => task[upErr.id] = "failed"

\* Up has returned a poll error while another poll task is still polling
C3_Witness ==
    /\ pc = "done"
    /\ upErr.kind = "poll"
    /\ \E j \in InstanceIds : task[j] = "polling"

\* C4: Up is at PostInstall, or has returned nil, only if the poll task of
\* every launched instance finished successfully; with a failed poll task the
\* wgDone branch is never taken.
C4_PostInstallOnlyAfterAllReady ==
    /\ (pc = "postinstall" \/ (pc = "done" /\ upErr = NilErr))
          => /\ launched = 1..Len(images)
             /\ \A i \in launched : task[i] = "ok"
    /\ (\E i \in InstanceIds : task[i] \in {"dumping", "sending", "failed", "panicked"})
          => (pc # "postinstall" /\ ~(pc = "done" /\ upErr = NilErr))

\* Up returned nil for a control plane and at least one worker
C4_Witness ==
    /\ pc = "done"
    /\ upErr = NilErr
    /\ Len(instances) >= 2
    /\ \A i \in 1..Len(instances) : task[i] = "ok"

-----------------------------------------------------------------------------
(* Claims on the readiness poller (SpecPoll) *)

\* C5: within one iteration the gates run in the fixed order describe, network
\* interface, SSH key (with instance-connect, until a key is assigned),
\* container runtime, cloud-init, then on the control plane only kubectl
\* version and kubectl get nodes; a gate is attempted only after every gate
\* before it passed in the same iteration, and the loop succeeds only when
\* all of them passed.
C5_GatesInFixedOrder ==
    LET n == Len(attempted)
        order(withKey) ==
            <<"describe", "netif">>
            \o (IF withKey THEN <<"sshkey">> ELSE <<>>)
            \o <<"containerd", "cloudinit">>
            \o (IF isControlPlane THEN <<"kubectlVersion", "getNodes">> ELSE <<>>)
        keyCases == IF instanceConnect THEN BOOLEAN ELSE {FALSE}
    IN  /\ \A k \in 1..(n - 1) : attempted[k].ok
        /\ \E withKey \in keyCases :
              /\ n <= Len(order(withKey))
              /\ [k \in 1..n |-> attempted[k].gate] = SubSeq(order(withKey), 1, n)
              /\ instanceRunning =>
                    (n = Len(order(withKey)) /\ \A k \in 1..n : attempted[k].ok)
        /\ (instanceConnect /\ \E k \in 1..n : attempted[k].gate = "containerd")
              => createdSSHKey

\* on the control plane, an iteration ended at its failed cloud-init gate: the
\* gates before it passed and neither kubectl gate was attempted
C5_Witness ==
    /\ isControlPlane
    /\ instanceConnect
    /\ ppc = "describe"
    /\ iter >= 1
    /\ Len(attempted) = 5
    /\ attempted[5].gate = "cloudinit"
    /\ ~attempted[5].ok

\* C6: the error of a poll whose iterations all failed names the instance id
\* and carries the output of the last failed remote command.  The code builds
\* it from the id alone (runner.go:336).
C6_ErrorCarriesLastOutput ==
    (ppc = "returned" /\ pollRet.kind = "notrunning") =>
        /\ pollRet.id = PolledId
        /\ lastFail.out # {} => pollRet.detail = <<lastFail.out>>

-----------------------------------------------------------------------------
(* Claims on the user-data composer (SpecData) *)

\* C9: prepareAWSImages returns an error and no image spec whenever the
\* rendered control-plane user-data or the rendered worker user-data is over
\* 16384 bytes, each role being measured on its own; the image specs hold
\* the rendered user-data whole, and no user-data over the ceiling reaches
\* RunInstances.
C9_OversizeRejectedPerRole ==
    dpc \notin {"off", "start"} =>
        LET cp == getUserData(opts.cpFile, TRUE, opts)
            w  == getUserData(opts.wFile, FALSE, opts)
        IN  /\ (Length(cp) > 16384 \/ Length(w) > 16384)
                  => (prepErr # NilErr /\ ret = <<>> /\ handed = <<>>)
            /\ (prepErr = NilErr /\ opts.numNodes = 0) => ret # <<>>
            /\ \A k \in 1..Len(ret) :
                  /\ ret[k].UserData = (IF k = 1 THEN cp ELSE w)
                  /\ Length(ret[k].UserData) <= 16384
            /\ \A k \in 1..Len(handed) : Length(handed[k]) <= 16384

\* the control plane's user-data fits, the worker's does not, and the
\* preparation failed with no image spec
C9_Witness ==
    /\ dpc = "failed"
    /\ prepErr.kind = "toolarge"
    /\ ret = <<>>
    /\ Length(getUserData(opts.cpFile, TRUE, opts)) <= 16384
    /\ Length(getUserData(opts.wFile, FALSE, opts)) = 16384 + 1

C11_ControlPlaneIPSetOnce ==
    [][ /\ controlPlaneIP' # controlPlaneIP =>
            /\ controlPlaneIP = NoIP
            /\ instances = <<>>
            /\ Len(instances') = 1
            /\ controlPlaneIP' = PrivateIP(instances'[1])
            /\ \A i \in InstanceIds : task[i] = "none"
        /\ instances' # <<>> => controlPlaneIP' = PrivateIP(instances'[1]) ]_vars

\* a second instance was launched and its poll task started after the seeding
C11_Witness ==
    /\ Len(instances) >= 2
    /\ controlPlaneIP = PrivateIP(instances[1])
    /\ task[instances[2]] # "none"


\* C12: once instances are tracked, exactly one of them has the launch-time
\* private IP that equals controlPlaneIP, namely the first; the kubectl gates
\* were run for no other instance, and a control-plane poll that returned nil
\* ran them
C12_OneControlPlaneGated ==
    LET tracked == {instances[k] : k \in 1..Len(instances)} IN
    /\ instances # <<>> =>
          {i \in tracked : controlPlaneIP = PrivateIP(i)} = {instances[1]}
    /\ kubectlGated \subseteq {i \in tracked : controlPlaneIP = PrivateIP(i)}
    /\ \A i \in tracked :
          (task[i] = "ok" /\ controlPlaneIP = PrivateIP(i)) => i \in kubectlGated

\* the control plane and a worker both passed their poll
C12_Witness ==
    /\ Len(instances) >= 2
    /\ instances[1] \in kubectlGated
    /\ task[instances[1]] = "ok"
    /\ task[instances[2]] = "ok"


\* C13: the images are launched in the order prepareAWSImages returned them,
\* the control plane first and only workers after it; every worker is launched
\* with the control plane's private IP already known and not empty, and the
\* user-data of its request is its prepared user-data with each occurrence of
\* the IP placeholder turned into that address
C13_WorkersCarryControlPlaneIP ==
    /\ \A k \in 1..Len(ret) : (ret[k].role = "control-plane") <=> (k = 1)
    /\ Len(handed) >= 1 => (cpIP = FirstPrivateIP /\ Len(cpIP) > 0)
    /\ \A k \in 2..Len(handed) :
          /\ ret[k].role = "worker"
          /\ handed[k].toks[LaunchToken] = 0
          /\ handed[k].lit = ret[k].UserData.lit
                               + ret[k].UserData.toks[LaunchToken] * Len(FirstPrivateIP)

\* a worker whose prepared user-data names the placeholder was launched
C13_Witness ==
    /\ Len(handed) >= 2
    /\ ret[2].role = "worker"
    /\ ret[2].UserData.toks[LaunchToken] > 0
    /\ handed[2].lit > ret[2].UserData.lit


\* C14 as stated: a session whose Up returned nil has downloaded the admin
\* kubeconfig exactly once, from the control plane.
C14_DownloadedExactlyOnce ==
    (pc = "done" /\ upErr = NilErr /\ ~exited) =>
        (Len(downloads) = 1 /\ downloads[1] = instances[1])

\* C14, amended: over the poll tasks of Up and every later IsUp, the admin
\* kubeconfig is downloaded at most once and only from the control plane;
\* never when a kubeconfig path was given with --kubeconfig, and exactly once
\* by the time Up returns nil when none was given.
C14_DownloadedAtMostOnce ==
    /\ Len(downloads) <= 1
    /\ \A k \in 1..Len(downloads) :
          downloads[k] = instances[1] /\ controlPlaneIP = PrivateIP(downloads[k])
    /\ KubeconfigPath \in KubeconfigFlags \ {""} => downloads = <<>>
    /\ (pc = "done" /\ upErr = NilErr /\ KubeconfigPath \notin KubeconfigFlags \ {""})
          => Len(downloads) = 1

\* the control plane's poll task downloaded the kubeconfig during Up, workers
\* were polled too, and IsUp has run twice since
C14_Witness ==
    /\ Len(instances) >= 2
    /\ downloads = <<instances[1]>>
    /\ KubeconfigPath = DownloadedPath
    /\ task[instances[2]] = "ok"
    /\ isUpCalls = 2
    /\ isUpRet.up


\* C17: when IsUp returned true, every tracked instance was re-polled by that
\* call and found running, and kubectl get nodes listed at least one node.
C17_IsUpTrueMeansAllRepolled ==
    isUpRet.up =>
        /\ \A k \in 1..Len(instances) :
              instances[k] \in repolled /\ instances[k] \notin notRunning
        /\ nodesListed >= 1


\* C18: the first thing a Down does is the log dump; every terminate call
\* comes after it, and the terminate calls issued are those of the loop over
\* the tracked instances whether the dump succeeded or failed
C18_DumpBeforeTerminate ==
    down = "done" =>
        /\ Len(downLog) = 1 + Len(downAttempted)
        /\ downLog[1].op = "dump"
        /\ \A k \in 2..Len(downLog) :
              downLog[k].op = "terminate" /\ downLog[k].id = downAttempted[k - 1]
        /\ downAttempted = TerminateCalls(instances, termFailing)

\* the dump failed and two terminate calls followed it
C18_Witness ==
    /\ down = "done"
    /\ ~downLog[1].ok
    /\ Len(downLog) >= 3
    /\ downLog[3].op = "terminate"


\* C15: an ensureInstanceProfileAndRole that returned nil (so that Validate
\* goes on) left the role in place and the named instance profile in place
\* with the role in it, and it returned an error whenever EnsureRole or
\* EnsureInstanceProfile did.
C15_ValidatePassesOnlyWithRoleAndProfile ==
    \A k \in 1..Len(ensureLog) :
        LET e == ensureLog[k] IN
        /\ e.err = NilErr => (e.after.role /\ e.after.profile /\ e.after.attached)
        /\ (e.roleErr # NilErr \/ e.profileErr # NilErr) => e.err # NilErr

C34_NilMeansRoleWithAllPolicies ==
    \A k \in 1..Len(ensureLog) :
        ensureLog[k].roleErr = NilErr =>
            /\ ensureLog[k].after.role
            /\ ensureLog[k].after.policies = NumPolicies


\* C19: when the image checks of Validate pass, both images are ids that
\* begin with "ami-": an id given with the prefix is kept and nothing is
\* looked up for it; an empty or logical name is looked up once, in the
\* parameter of its OS (Ubuntu 24.04 when empty) and of the target
\* architecture, and replaced by the answer. When a lookup failed or a value
\* (given or looked up) lacks the prefix, Validate returned an error
C19_ImagesResolvedOrError ==
    LET made(field) == SelectSeq(lookups, LAMBDA l : l.field = field)
        Family(name) ==
            CASE name = StrAl2023 -> "ami-amazon-linux-latest/al2023-ami-kernel-default"
              [] name = StrAl2    -> "ami-amazon-linux-latest/amzn2-ami-hvm"
              [] OTHER            -> "canonical/ubuntu/server/24.04/stable/20250305"
        Resolved(given, resolved, ls) ==
            /\ HasPrefix(resolved, AmiPrefix)
            /\ HasPrefix(given, AmiPrefix) => (resolved = given /\ ls = <<>>)
            /\ ~HasPrefix(given, AmiPrefix) =>
                  /\ given = StrEmpty \/ given \in operatingSystems
                  /\ Len(ls) = 1
                  /\ ls[1].ok
                  /\ ls[1].value = resolved
                  /\ ls[1].path.family = Family(given)
                  /\ ls[1].path.arch \in
                        IF TargetBuildArch = "linux/arm64" THEN {"arm64"}
                        ELSE IF given \in {StrAl2023, StrAl2} THEN {"x86_64"}
                        ELSE {"amd64"}
    IN
    imagePc = "returned" =>
        /\ imagesErr = NilErr =>
              /\ Resolved(requested.image, Image, made("image"))
              /\ Resolved(requested.worker, WorkerImage, made("worker"))
        /\ (\/ \E k \in 1..Len(lookups) :
                  ~lookups[k].ok \/ ~HasPrefix(lookups[k].value, AmiPrefix)
            \/ ~(NeedsLookup(requested.image) \/ HasPrefix(requested.image, AmiPrefix))
            \/ (/\ HasPrefix(Image, AmiPrefix)
                /\ ~(NeedsLookup(requested.worker)
                     \/ HasPrefix(requested.worker, AmiPrefix))))
              => imagesErr # NilErr

\* an empty --image resolved through the Ubuntu parameter for amd64 next to
\* an explicit worker id that was kept
C19_Witness ==
    /\ imagePc = "returned"
    /\ imagesErr = NilErr
    /\ requested = [image |-> StrEmpty, worker |-> StrAmiB]
    /\ Image = StrAmiA
    /\ WorkerImage = StrAmiB
    /\ Len(lookups) = 1
    /\ lookups[1].path = [family |-> "canonical/ubuntu/server/24.04/stable/20250305",
                           arch |-> "amd64"]


\* C20: a LaunchNewInstance call whose image lookup or profile ARN lookup
\* failed returned an error without calling RunInstances; every other call
\* called RunInstances exactly once and returned what that call gave.
C20_LaunchErrorsOrRunsOnce ==
    \A k \in 1..Len(launchLog) :
        LET in  == launchLog[k].in
            out == launchLog[k].out
        IN  IF in.describe = "error" \/ (in.describe = "found" /\ in.hasProfile /\ ~in.arnOK)
            THEN out.returned /\ out.err # NilErr /\ out.runInstances = 0
            ELSE /\ out.returned
                 /\ out.runInstances = 1
                 /\ out.err = IF in.runOK THEN NilErr ELSE Err("RunInstances", 0)


\* C21: in the kubeconfig written, the line that read
\* `server: https://internal-host:6443` reads `server: https://<publicIp>:6443`
\* (with 203.0.113.5: `server: https://203.0.113.5:6443`), exactly and with
\* the indentation it had, and every other line is the line that was read
C21_ServerLineRewritten ==
    kubePc = "written" =>
        /\ Len(kubeOut) = Len(adminConf)
        /\ \A k \in 1..Len(adminConf) :
              LET line == adminConf[k]
                  n    == Len(line)
              IN  IF n >= 3 /\ line[n - 2] = ServerPrefix /\ line[n] = PortSuffix
                  THEN kubeOut[k] = [line EXCEPT ![n - 1] = publicIp]
                  ELSE kubeOut[k] = line

\* the indented server line was rewritten with 203.0.113.5 between two lines
\* that were left alone
C21_Witness ==
    /\ kubePc = "written"
    /\ publicIp = "203.0.113.5"
    /\ Len(adminConf) = 3
    /\ adminConf[2] = <<"    ", ServerPrefix, "internal-host", PortSuffix>>
    /\ kubeOut[2] = <<"    ", ServerPrefix, "203.0.113.5", PortSuffix>>
    /\ kubeOut[1] = adminConf[1]
    /\ kubeOut[3] = <<"    ", "proxy-url: http://", "internal-host", PortSuffix>>

C23_LaunchedAreTracked ==
    /\ launched \subseteq {instances[k] : k \in 1..Len(instances)}
    /\ (down = "done" /\ downErr = NilErr)
          => launched \subseteq {downAttempted[k] : k \in 1..Len(downAttempted)}


\* C24: whatever Build, Up, IsUp and Down calls are made on one deployer, an
\* instance an Up launched and that still runs is in d.runner.instances
\* unless a Down has issued a terminate call for it.
C24_RunningStayTracked ==
    \A i \in ec2Running \ TerminateAttempted(terminateLog) :
        \E k \in 1..Len(runnerInstances) : runnerInstances[k] = i


\* C28: once a Down has returned nil, the instances it terminated are no
\* longer tracked: no later Down issues a terminate call for one of them.
C28_NoSecondTerminate ==
    \A j, k \in 1..Len(terminateLog) :
        (j < k /\ terminateLog[j].err = NilErr)
            => \A m \in 1..Len(terminateLog[j].calls), n \in 1..Len(terminateLog[k].calls) :
                   terminateLog[j].calls[m] # terminateLog[k].calls[n]


\* C25: the launch loop appends to the tracked list only while no poll task
\* is in its DumpClusterLogs call, which ranges over that list.
C25_NoAppendDuringTaskDump ==
    [][Len(instances') > Len(instances)
          => \A i \in InstanceIds : task[i] # "dumping"]_vars


\* C26: after the instance was reported running the readiness loop makes at
\* most 30 iterations and ends; it ends before the 30th only by an iteration
\* that passed every gate; the poll returns nil exactly when an iteration
\* passed every gate, whatever gate failed in the iterations before.
C26_CappedAndSuccessIffAllGatesPassed ==
    LET n == Len(attempted)
        lastGate == IF isControlPlane THEN "getNodes" ELSE "cloudinit"
        passedAll == /\ n > 0
                     /\ attempted[n].gate = lastGate
                     /\ \A k \in 1..n : attempted[k].ok
        ended == ppc \in {"exit", "returned"} /\ pollRet.kind # "didnotstart"
    IN  /\ iter <= MaxPollIterations
        /\ iter = MaxPollIterations => ppc \in {"exit", "returned"}
        /\ instanceRunning <=> passedAll
        /\ (ended /\ ~instanceRunning) => iter = MaxPollIterations
        /\ (ended /\ instanceRunning) => pollRet = NoPErr
        /\ ppc = "returned" =>
              (pollRet = NoPErr <=> instanceRunning)

\* a control-plane poll returned nil from its last allowed iteration, the
\* iteration before having failed at the node listing
C26_Witness ==
    /\ ppc = "returned"
    /\ isControlPlane
    /\ pollRet = NoPErr
    /\ instanceRunning
    /\ iter = MaxPollIterations
    /\ lastFail.gate = "getNodes"


\* C27: an instance that RunInstances returned and that had no public or
\* private address when the launcher's wait ended does not fail the launch:
\* Up returns no launch error for it, it is tracked, and a poll task is
\* started for it.
C27_MissingAddressDoesNotFailLaunch ==
    \A i \in launched :
        /\ ~(pc = "done" /\ upErr.kind = "launch" /\ li = i)
        /\ task[i] # "none"


C30_NodeWaitBoundedAndNotFatal ==
    /\ nwChecks <= MaxNodeChecks
    /\ (nwPc = "loop" /\ nwChecks > 0)
          => (~nwLast.err /\ nwLast.lines # nwTracked /\ nwChecks < MaxNodeChecks)
    /\ nwEnd = "match" => (~nwLast.err /\ nwLast.lines = nwTracked)
    /\ nwEnd = "error" => nwLast.err
    /\ nwEnd = "cap"
          => (nwChecks = MaxNodeChecks /\ ~nwLast.err /\ nwLast.lines # nwTracked)
    /\ nwPc \in {"returned", "next"} => nwEnd # "none"
    /\ nwUpErr = NilErr

\* all three nodes were listed at the second run, after a run that listed
\* two, and Up went on
C30_Witness ==
    /\ nwPc = "next"
    /\ nwTracked = MaxInstances
    /\ nwEnd = "match"
    /\ nwChecks = 2
    /\ nwUpErr = NilErr


\* C31: with instance-connect on, a remote command gate is tried in an
\* iteration only when the key has been assigned in this poll; a failed key
\* assignment ends the iteration with no remote command tried and the next
\* iteration reaches the key gate again; once the key is assigned the key
\* gate is not entered again in this poll.
C31_KeyBeforeRemoteCommands ==
    [][LET remote == {"containerd", "cloudinit", "kubectlVersion", "getNodes"}
       IN  /\ (instanceConnect /\ \E k \in 1..Len(attempted') : attempted'[k].gate \in remote)
              => createdSSHKey'
           /\ (ppc = "sshkey" /\ ~createdSSHKey')
              => /\ iter' = iter + 1
                 /\ ppc' = IF iter + 1 < MaxPollIterations THEN "describe" ELSE "exit"
                 /\ \A k \in 1..Len(attempted') : attempted'[k].gate \notin remote
           /\ (ppc = "netif" /\ instanceConnect /\ ~createdSSHKey /\ iter' = iter)
              => ppc' = "sshkey"
           /\ createdSSHKey => (createdSSHKey' /\ ppc' # "sshkey")]_vars

\* the key assignment failed in an earlier iteration, succeeded in this one,
\* and the container runtime gate was then tried
C31_Witness ==
    /\ instanceConnect
    /\ createdSSHKey
    /\ lastFail.gate = "sshkey"
    /\ iter >= 1
    /\ Len(attempted) >= 4
    /\ attempted[3].gate = "sshkey"
    /\ attempted[4].gate = "containerd"

\* C33: Up issues no terminate call; once Up has returned a launch error or a
\* poll error (the poll's task having made its dump and its send), and until
\* Down is called, every instance launched so far is in the tracked list.
C33_FailedUpLeavesAllTrackedForDown ==
    /\ down = "none" => downAttempted = <<>>
    /\ (pc = "done" /\ upErr.kind \in {"launch", "poll"} /\ down = "none")
          => /\ upErr.kind = "poll" => task[upErr.id] = "failed"
             /\ launched \subseteq {instances[k] : k \in 1..Len(instances)}

\* C37: whenever instances are tracked, the first of them was launched from
\* the control-plane image and is the one tracked instance whose private IP
\* equals controlPlaneIP; waitForCloudInitComplete ran its command on that
\* instance only, and an IsUp call re-polled that instance only.
C37_FirstTrackedIsControlPlane ==
    instances # <<>> =>
        /\ images[instances[1]] = "control-plane"
        /\ \A k \in 1..Len(instances) :
              (controlPlaneIP = PrivateIP(instances[k])) <=> (k = 1)
        /\ cloudInitOn \subseteq {instances[1]}
        /\ pc = "done" /\ upErr = NilErr => cloudInitOn = {instances[1]}
        /\ repolled \subseteq {instances[1]}
        /\ isUpCalls > 0 => repolled = {instances[1]}

\* Up returned nil with a control plane and a worker tracked, the wait for
\* cloud-init was made, and IsUp was called
C37_Witness ==
    /\ Len(instances) >= 2 /\ pc = "done" /\ upErr = NilErr
    /\ cloudInitOn = {instances[1]}
    /\ isUpCalls > 0 /\ repolled = {instances[1]}
    /\ task[instances[2]] = "ok"

-----------------------------------------------------------------------------
(* Claims on the polls running side by side (SpecFleet) *)

\* C32: the poll of a worker returns nil exactly when the worker's own gates
\* passed in one of its iterations, and otherwise an error that names the
\* worker, whatever position, iteration count and result the polls of the
\* other instances have, the control plane's included
C32_WorkerOutcomeIsItsOwn ==
    \A i \in FleetIds \ {1} :
        fleetPc[i] = "returned" =>
            /\ fleetRet[i] = NilErr <=> fleetOwnPassed[i]
            /\ fleetRet[i] # NilErr => fleetRet[i].id = i

\* a worker's poll returned nil while the control plane's poll, whose own
\* gates had passed but never its kubectl gates, returned an error after its
\* last iteration
C32_Witness ==
    /\ fleetPc[2] = "returned" /\ fleetRet[2] = NilErr /\ fleetOwnPassed[2]
    /\ fleetPc[1] = "returned" /\ fleetRet[1] = Err("notrunning", 1)
    /\ fleetOwnPassed[1]

-----------------------------------------------------------------------------
(* Claims on the node-e2e runner (SpecE2e) *)

\* C35: with DeleteInstances set, a task whose TestResult the caller received
\* and that had launched an instance had a terminate call issued for that
\* instance, also when the instance never started running or never passed
\* the readiness loop.
C35_LaunchedAreTerminatedBeforeResult ==
    e2eCfg.DeleteInstances =>
        \A k \in 1..Len(e2eReceived) :
            e2eInstance[e2eReceived[k].task] = "launched"
                => e2eReceived[k].task \in e2eTerminated

\* C36: once StartTests returned, it returned the number of prepared images
\* and started one task for each of them with that image; no task has two
\* results received; and once the caller received numTests results they are
\* one for each image and every task has ended.
C36_OneResultPerImage ==
    e2ePc = "returned" =>
        /\ e2eNumTests = e2eImages
        /\ \A i \in E2eTaskIds : (e2eTask[i] # "none") <=> (i <= e2eImages)
        /\ \A j, k \in 1..Len(e2eReceived) :
              e2eReceived[j].task = e2eReceived[k].task => j = k
        /\ Len(e2eReceived) = e2eNumTests =>
              /\ \A img \in 1..e2eImages :
                    Cardinality({k \in 1..Len(e2eReceived) :
                                    e2eReceived[k].result.image = img}) = 1
              /\ \A i \in 1..e2eImages : e2eTask[i] = "done"

\* the caller received the results of two images, one a failed creation and
\* one of a test that ran
C36_Witness ==
    /\ e2eNumTests = 2 /\ Len(e2eReceived) = 2
    /\ e2eReceived[1].result.err = "create" /\ e2eReceived[1].task = 2
    /\ e2eReceived[2].result.err = "nil" /\ e2eReceived[2].result.host = 1

=============================================================================
